---- MODULE Spec2Model ----
(***************************************************************************)
(* A model of GuidedIntegration.py: the guided set-up and the .int loading *)
(* path, the coercion of the integration parameters, the creation of the   *)
(* output sub-directories, the writing of the .int file, the batch loop    *)
(* and the record file.                                                    *)
(*                                                                         *)
(* Python text is a TLA+ string, read character by character with SubSeq.  *)
(* Every Python variable holds a tagged value (PyStr, PyInt, PyFloat,      *)
(* PyTuple, PyList, PyNone) or Unbound when the name was never assigned.   *)
(* sys.exit() ends a run in pc = "Abort"; an exception nothing catches     *)
(* ends it in pc = "Crash"; exc holds its type and the step it left.       *)
(* literal_eval covers numbers, quoted text, names, tuples, lists, signs   *)
(* and binary operators; hexadecimal, complex, set and dict literals and   *)
(* digit-group underscores are outside the texts the model draws.          *)
(***************************************************************************)
EXTENDS Integers, Sequences, FiniteSets, TLC

(***************************************************************************)
(* Python str operations                                                   *)
(***************************************************************************)
Ch(s, i) == SubSeq(s, i, i)

LowerCaseOf == [c \in {"A","B","C","D","E","F","G","H","I","J","K","L","M",
                       "N","O","P","Q","R","S","T","U","V","W","X","Y","Z"} |->
                 CASE c = "A" -> "a" [] c = "B" -> "b" [] c = "C" -> "c"
                   [] c = "D" -> "d" [] c = "E" -> "e" [] c = "F" -> "f"
                   [] c = "G" -> "g" [] c = "H" -> "h" [] c = "I" -> "i"
                   [] c = "J" -> "j" [] c = "K" -> "k" [] c = "L" -> "l"
                   [] c = "M" -> "m" [] c = "N" -> "n" [] c = "O" -> "o"
                   [] c = "P" -> "p" [] c = "Q" -> "q" [] c = "R" -> "r"
                   [] c = "S" -> "s" [] c = "T" -> "t" [] c = "U" -> "u"
                   [] c = "V" -> "v" [] c = "W" -> "w" [] c = "X" -> "x"
                   [] c = "Y" -> "y" [] c = "Z" -> "z"]

LowerCh(c) == IF c \in DOMAIN LowerCaseOf THEN LowerCaseOf[c] ELSE c

RECURSIVE lower(_)
lower(s) == IF s = "" THEN "" ELSE LowerCh(Ch(s, 1)) \o lower(Tail(s))

Digits == {"0","1","2","3","4","5","6","7","8","9"}

isdigit(c) == c \in Digits

\* True in [i.isdigit() for i in s]
AnyDigit(s) == \E i \in 1..Len(s) : isdigit(Ch(s, i))

startswith(s, p) == Len(p) <= Len(s) /\ SubSeq(s, 1, Len(p)) = p

endswith(s, p) == Len(p) <= Len(s) /\ SubSeq(s, Len(s) - Len(p) + 1, Len(s)) = p

\* the 1-based positions at which sub starts in s
Occurrences(s, sub) ==
    {i \in 1..(Len(s) - Len(sub) + 1) : SubSeq(s, i, i + Len(sub) - 1) = sub}

\* s.find(sub): the lowest 0-based index at which sub starts, -1 when absent
\* the least of a set of positions as a 0-based index, -1 for the empty set
FirstOf(at) == IF at = {} THEN -1 ELSE (CHOOSE i \in at : \A j \in at : i <= j) - 1
LastOf(at) == IF at = {} THEN -1 ELSE (CHOOSE i \in at : \A j \in at : i >= j) - 1

FindFrom(s, sub, from) == FirstOf({i \in Occurrences(s, sub) : i >= from})

find(s, sub) == FindFrom(s, sub, 1)

\* sub in s
In(sub, s) == find(s, sub) # -1

\* s.split(sep): the pieces between the occurrences of sep, left to right
RECURSIVE split(_, _)
RECURSIVE SplitAt(_, _, _)
split(s, sep) == SplitAt(s, sep, find(s, sep))

\* the pieces when the first sep is at the 0-based index k
SplitAt(s, sep, k) ==
    IF k = -1 THEN <<s>>
    ELSE <<SubSeq(s, 1, k)>> \o split(SubSeq(s, k + Len(sep) + 1, Len(s)), sep)

\* s.rfind(sub): the highest 0-based index at which sub starts, -1 when absent
rfind(s, sub) == LastOf(Occurrences(s, sub))

\* s.rsplit(sep, 1)[0]: the text before the last occurrence of sep
RSplitAt(s, k) == IF k = -1 THEN s ELSE SubSeq(s, 1, k)
rsplit1_0(s, sep) == RSplitAt(s, rfind(s, sep))

\* s.split(sep)[-1]
Last(xs) == xs[Len(xs)]
LastPiece(s, sep) == Last(split(s, sep))

Whitespace == {" ", "\t", "\n", "\r"}

\* s.strip(chars), chars a set of characters
RECURSIVE lstripSet(_, _)
lstripSet(s, chars) ==
    IF s # "" /\ Ch(s, 1) \in chars THEN lstripSet(Tail(s), chars) ELSE s

RECURSIVE rstripSet(_, _)
rstripSet(s, chars) ==
    IF s # "" /\ Ch(s, Len(s)) \in chars
    THEN rstripSet(SubSeq(s, 1, Len(s) - 1), chars) ELSE s

stripSet(s, chars) == rstripSet(lstripSet(s, chars), chars)

\* s.strip()
strip(s) == stripSet(s, Whitespace)

CharsOf(s) == {Ch(s, i) : i \in 1..Len(s)}

\* s.strip(t) for a str t: strips every character that occurs in t
stripChars(s, t) == stripSet(s, CharsOf(t))

\* sep.join(xs)
RECURSIVE join(_, _)
join(sep, xs) ==
    IF Len(xs) = 0 THEN ""
    ELSE IF Len(xs) = 1 THEN xs[1]
    ELSE xs[1] \o sep \o join(sep, Tail(xs))

(***************************************************************************)
(* Python values                                                           *)
(***************************************************************************)
Unbound == [t |-> "unbound"]
PyNone == [t |-> "NoneType"]
PyStr(s) == [t |-> "str", s |-> s]
PyInt(n) == [t |-> "int", n |-> n]
PyBool(b) == [t |-> "bool", b |-> b]
\* a float m * 10^e, m without trailing zeros (0.0 is m = 0, e = 0)
RECURSIVE NormFloat(_, _)
NormFloat(m, e) ==
    IF m = 0 THEN [t |-> "float", m |-> 0, e |-> 0]
    ELSE IF m % 10 = 0 THEN NormFloat(m \div 10, e + 1)
    ELSE [t |-> "float", m |-> m, e |-> e]
PyFloat(m, e) == NormFloat(m, e)
PyTuple(xs) == [t |-> "tuple", items |-> xs]
PyList(xs) == [t |-> "list", items |-> xs]
\* the outcome of an expression that raises
Raise(x) == [t |-> "raise", exc |-> x]

IsRaise(v) == v.t = "raise"
IsStr(v) == v.t = "str"

\* bool(v) as `if not v` reads it
Truthy(v) ==
    CASE v.t = "NoneType" -> FALSE
      [] v.t = "str" -> v.s # ""
      [] v.t = "int" -> v.n # 0
      [] v.t = "float" -> v.m # 0
      [] v.t \in {"tuple", "list"} -> Len(v.items) > 0
      [] v.t = "bool" -> v.b
      [] OTHER -> TRUE

DigitChars == <<"0","1","2","3","4","5","6","7","8","9">>

DigitVal(c) == CHOOSE d \in 0..9 : DigitChars[d + 1] = c

RECURSIVE NatStr(_)
NatStr(n) == IF n < 10 THEN DigitChars[n + 1]
             ELSE NatStr(n \div 10) \o DigitChars[(n % 10) + 1]

IntStr(n) == IF n < 0 THEN "-" \o NatStr(-n) ELSE NatStr(n)

RECURSIVE Zeros(_)
Zeros(k) == IF k <= 0 THEN "" ELSE "0" \o Zeros(k - 1)

\* repr(float): the shortest text that reads back as the same float; fixed
\* notation when the decimal exponent of the leading digit is in -4..15
FloatDigits(sign, ds, e, x) ==
    IF x < -4 \/ x >= 16
    THEN sign \o Ch(ds, 1)
         \o (IF Len(ds) > 1 THEN "." \o SubSeq(ds, 2, Len(ds)) ELSE "")
         \o "e" \o (IF x < 0 THEN "-" ELSE "+")
         \o (IF x > -10 /\ x < 10 THEN "0" ELSE "") \o NatStr(IF x < 0 THEN -x ELSE x)
    ELSE IF e >= 0 THEN sign \o ds \o Zeros(e) \o ".0"
    ELSE IF x >= 0 THEN sign \o SubSeq(ds, 1, x + 1) \o "." \o SubSeq(ds, x + 2, Len(ds))
    ELSE sign \o "0." \o Zeros(-x - 1) \o ds

FloatOfDigits(sign, ds, e) == FloatDigits(sign, ds, e, Len(ds) - 1 + e)

FloatStr(m, e) ==
    IF m = 0 THEN "0.0"
    ELSE FloatOfDigits(IF m < 0 THEN "-" ELSE "", NatStr(IF m < 0 THEN -m ELSE m), e)

RECURSIVE repr(_)
RECURSIVE ReprItems(_)
ReprItems(xs) == IF Len(xs) = 0 THEN <<>> ELSE <<repr(xs[1])>> \o ReprItems(Tail(xs))

repr(v) ==
    CASE v.t = "NoneType" -> "None"
      [] v.t = "str" -> "'" \o v.s \o "'"
      [] v.t = "int" -> IntStr(v.n)
      [] v.t = "float" -> FloatStr(v.m, v.e)
      [] v.t = "bool" -> IF v.b THEN "True" ELSE "False"
      [] v.t = "tuple" -> IF Len(v.items) = 1 THEN "(" \o repr(v.items[1]) \o ",)"
                          ELSE "(" \o join(", ", ReprItems(v.items)) \o ")"
      [] v.t = "list" -> "[" \o join(", ", ReprItems(v.items)) \o "]"

\* str(v)
str(v) == IF v.t = "str" THEN v.s ELSE repr(v)

(***************************************************************************)
(* ast.literal_eval on the texts the prompts and the .int file can hold:   *)
(* numbers, quoted strings, None/True/False, other names, unary and binary *)
(* + and -, tuples and lists.  A text that does not parse raises           *)
(* SyntaxError; one that parses to a node literal_eval refuses (a name, an *)
(* operation on non-numbers) raises ValueError.                            *)
(***************************************************************************)
Letters == DOMAIN LowerCaseOf \cup {LowerCaseOf[c] : c \in DOMAIN LowerCaseOf} \cup {"_"}

RECURSIVE NatOf(_)
NatOf(ds) == IF ds = "" THEN 0
             ELSE 10 * NatOf(SubSeq(ds, 1, Len(ds) - 1)) + DigitVal(Ch(ds, Len(ds)))

\* the end (exclusive) of the run of characters of `set` that starts at i
RECURSIVE RunEnd(_, _, _)
RunEnd(s, i, set) == IF i <= Len(s) /\ Ch(s, i) \in set THEN RunEnd(s, i + 1, set) ELSE i

TokErr == [k |-> "err"]
TokVal(v) == [k |-> "val", v |-> v]
TokName(n) == [k |-> "name", s |-> n]
TokP(c) == [k |-> "p", c |-> c]

HasCh(s, k, set) == k <= Len(s) /\ Ch(s, k) \in set

\* the number token made of the integer part ip, the fraction fp and the
\* exponent xp, which ends before x
NumberTok(s, ip, hasDot, fp, hasE, xp, neg, x) ==
    IF (hasE /\ xp = "") \/ HasCh(s, x, Letters) \/ (ip = "" /\ fp = "")
    THEN [tok |-> TokErr, next |-> Len(s) + 1]
    ELSE IF ~hasDot /\ ~hasE
         THEN IF Len(ip) > 1 /\ Ch(ip, 1) = "0" /\ NatOf(ip) # 0
              THEN [tok |-> TokErr, next |-> Len(s) + 1]
              ELSE [tok |-> TokVal(PyInt(NatOf(ip))), next |-> x]
    ELSE [tok |-> TokVal(PyFloat(NatOf(ip \o fp),
                                 (IF neg THEN -NatOf(xp) ELSE NatOf(xp)) - Len(fp))),
          next |-> x]

\* the exponent that starts at f, its digits from sg to x
NumberExp(s, i, j, f, sg, x) ==
    NumberTok(s, SubSeq(s, i, j - 1),
              HasCh(s, j, {"."}),
              IF HasCh(s, j, {"."}) THEN SubSeq(s, j + 1, f - 1) ELSE "",
              HasCh(s, f, {"e", "E"}),
              IF HasCh(s, f, {"e", "E"}) THEN SubSeq(s, sg, x - 1) ELSE "",
              HasCh(s, f, {"e", "E"}) /\ sg = f + 2 /\ Ch(s, f + 1) = "-",
              x)

\* the integer part ends before j, the fraction before f
NumberFrac(s, i, j, f, sg) ==
    NumberExp(s, i, j, f, sg, IF HasCh(s, f, {"e", "E"}) THEN RunEnd(s, sg, Digits) ELSE f)

NumberInt(s, i, j, f) ==
    NumberFrac(s, i, j, f,
               IF HasCh(s, f, {"e", "E"}) /\ HasCh(s, f + 1, {"+", "-"}) THEN f + 2 ELSE f + 1)

NumberFrom(s, i, j) ==
    NumberInt(s, i, j, IF HasCh(s, j, {"."}) THEN RunEnd(s, j + 1, Digits) ELSE j)

\* the number token that starts at i: [tok, next]
LexNumber(s, i) == NumberFrom(s, i, RunEnd(s, i, Digits))

NameTok(n, j) ==
    [tok |-> CASE n = "None" -> TokVal(PyNone)
               [] n = "True" -> TokVal(PyBool(TRUE))
               [] n = "False" -> TokVal(PyBool(FALSE))
               [] OTHER -> TokName(n),
     next |-> j]

NameUpTo(s, i, j) == NameTok(SubSeq(s, i, j - 1), j)

LexName(s, i) == NameUpTo(s, i, RunEnd(s, i, Letters \cup Digits))

\* a quoted string that starts at i and closes at the 0-based index k
StringUpTo(s, i, k) ==
    IF k = -1 THEN [tok |-> TokErr, next |-> Len(s) + 1]
    ELSE [tok |-> TokVal(PyStr(SubSeq(s, i + 1, k))), next |-> k + 2]

LexString(s, i) == StringUpTo(s, i, FindFrom(s, Ch(s, i), i + 1))

\* the token that starts at i with the character c
\* the one-character binary operators
BinOps == {"+", "-", "*", "/", "%", "^", "&", "|"}

TokenAt(s, i, c) ==
    CASE c \in Digits -> LexNumber(s, i)
      [] c = "." -> LexNumber(s, i)
      [] c \in Letters -> LexName(s, i)
      [] c \in {"'", "\""} -> LexString(s, i)
      [] c \in {"(", ")", "[", "]", ","} \cup BinOps -> [tok |-> TokP(c), next |-> i + 1]
      [] OTHER -> [tok |-> TokErr, next |-> Len(s) + 1]

RECURSIVE Lex(_, _)
RECURSIVE LexAfter(_, _)
\* the tokens of s from position i on
Lex(s, i) ==
    IF i > Len(s) THEN <<>>
    ELSE IF Ch(s, i) \in {" ", "\t"} THEN Lex(s, i + 1)
    ELSE LexAfter(s, TokenAt(s, i, Ch(s, i)))

LexAfter(s, r) == <<r.tok>> \o Lex(s, r.next)

ValueError == Raise("ValueError")
SyntaxErr == [ok |-> FALSE, v |-> Raise("SyntaxError"), next |-> 0]
Parsed(v, n) == [ok |-> TRUE, v |-> v, next |-> n]

IsP(toks, i, c) == i <= Len(toks) /\ toks[i].k = "p" /\ toks[i].c = c

AtEnd(toks, i) == i > Len(toks) \/ IsP(toks, i, ")") \/ IsP(toks, i, "]")

Negate(v) == CASE v.t = "int" -> PyInt(-v.n)
               [] v.t = "float" -> PyFloat(-v.m, v.e)
               [] OTHER -> ValueError

AnyRaise(xs) == \E i \in 1..Len(xs) : IsRaise(xs[i])

RECURSIVE ParseAtom(_, _)
RECURSIVE ParseExpr(_, _)
RECURSIVE ParseMore(_, _, _)
RECURSIVE ParseItems(_, _, _, _)
RECURSIVE ItemsAfter(_, _, _, _)
RECURSIVE AtomAt(_, _, _)
RECURSIVE MoreAfter(_, _)
RECURSIVE ExprAfter(_, _)

\* items separated by commas up to a closing bracket or the end of the text:
\* [ok, items, commas, next]
ParseItems(toks, i, items, commas) ==
    IF AtEnd(toks, i)
    THEN [ok |-> TRUE, items |-> items, commas |-> commas, next |-> i]
    ELSE ItemsAfter(toks, items, commas, ParseExpr(toks, i))

\* the items once one more expression e is parsed
ItemsAfter(toks, items, commas, e) ==
    IF ~e.ok THEN [ok |-> FALSE, items |-> items, commas |-> commas, next |-> 0]
    ELSE IF IsP(toks, e.next, ",")
         THEN ParseItems(toks, e.next + 1, Append(items, e.v), commas + 1)
    ELSE IF AtEnd(toks, e.next)
         THEN [ok |-> TRUE, items |-> Append(items, e.v), commas |-> commas, next |-> e.next]
    ELSE [ok |-> FALSE, items |-> items, commas |-> commas, next |-> 0]

\* a unary + or - applied to the operand a
Signed(toks, i, c, a) ==
    IF ~a.ok THEN SyntaxErr
    ELSE IF IsRaise(a.v) THEN a
    ELSE IF IsP(toks, i + 1, "+") \/ IsP(toks, i + 1, "-") THEN Parsed(ValueError, a.next)
    ELSE Parsed(IF c = "-" THEN Negate(a.v)
                ELSE IF a.v.t \in {"int", "float"} THEN a.v
                ELSE ValueError, a.next)

\* the items r between an opening bracket c and its closing bracket
Bracketed(toks, c, r) ==
    IF ~r.ok \/ ~IsP(toks, r.next, IF c = "(" THEN ")" ELSE "]") THEN SyntaxErr
    ELSE IF AnyRaise(r.items) THEN Parsed(ValueError, r.next + 1)
    ELSE IF c = "[" THEN Parsed(PyList(r.items), r.next + 1)
    ELSE IF r.commas = 0 /\ Len(r.items) = 1 THEN Parsed(r.items[1], r.next + 1)
    ELSE Parsed(PyTuple(r.items), r.next + 1)

ParseAtom(toks, i) == IF i > Len(toks) THEN SyntaxErr ELSE AtomAt(toks, i, toks[i])

AtomAt(toks, i, tk) ==
    CASE tk.k = "val" -> Parsed(tk.v, i + 1)
      [] tk.k = "name" -> Parsed(ValueError, i + 1)
      [] tk.k = "err" -> SyntaxErr
      [] tk.k = "p" /\ tk.c \in {"+", "-"} -> Signed(toks, i, tk.c, ParseAtom(toks, i + 1))
      [] tk.k = "p" /\ tk.c \in {"(", "["} ->
           Bracketed(toks, tk.c, ParseItems(toks, i + 1, <<>>, 0))
      [] OTHER -> SyntaxErr

\* a binary operator after an operand: it parses, and literal_eval refuses it
ParseMore(toks, i, v) ==
    IF \E c \in BinOps : IsP(toks, i, c)
    THEN MoreAfter(toks, ParseAtom(toks, i + 1))
    ELSE Parsed(v, i)

MoreAfter(toks, a) == IF ~a.ok THEN SyntaxErr ELSE ParseMore(toks, a.next, ValueError)

ParseExpr(toks, i) == ExprAfter(toks, ParseAtom(toks, i))

ExprAfter(toks, a) == IF ~a.ok THEN SyntaxErr ELSE ParseMore(toks, a.next, a.v)

\* the value of the items r parsed from the whole token list
LiteralOf(toks, r) ==
    IF ~r.ok \/ r.next <= Len(toks) \/ Len(r.items) = 0 THEN Raise("SyntaxError")
    ELSE IF AnyRaise(r.items) THEN ValueError
    ELSE IF r.commas = 0 THEN r.items[1]
    ELSE PyTuple(r.items)

EvalTokens(toks) ==
    IF \E i \in 1..Len(toks) : toks[i].k = "err" THEN Raise("SyntaxError")
    ELSE LiteralOf(toks, ParseItems(toks, 1, <<>>, 0))

literal_eval(s) == EvalTokens(Lex(s, 1))

\* the text without a leading sign
Unsigned(u) == IF u # "" /\ Ch(u, 1) \in {"+", "-"} THEN Tail(u) ELSE u

FloatOfTok(u, body, n) ==
    IF n.tok.k # "val" \/ n.next # Len(body) + 1 THEN ValueError
    ELSE IF u # "" /\ Ch(u, 1) = "-"
         THEN Negate(IF n.tok.v.t = "int" THEN PyFloat(n.tok.v.n, 0) ELSE n.tok.v)
    ELSE IF n.tok.v.t = "int" THEN PyFloat(n.tok.v.n, 0) ELSE n.tok.v

FloatOfBody(u, body) ==
    FloatOfTok(u, body,
               IF body # "" /\ (Ch(body, 1) \in Digits \/ Ch(body, 1) = ".")
               THEN LexNumber(body, 1) ELSE [tok |-> TokErr, next |-> 0])

FloatOfStripped(u) == FloatOfBody(u, Unsigned(u))

\* float(s) for a str s
float_of_str(s) == FloatOfStripped(strip(s))

\* float(v) for an int or a float v
float_of_num(v) == IF v.t = "int" THEN PyFloat(v.n, 0) ELSE v

IntOfBody(u, body) ==
    IF body = "" \/ RunEnd(body, 1, Digits) # Len(body) + 1 THEN ValueError
    ELSE IF Ch(u, 1) = "-" THEN PyInt(-NatOf(body)) ELSE PyInt(NatOf(body))

IntOfStripped(u) == IntOfBody(u, Unsigned(u))

\* int(s) for a str s
int_of_str(s) == IntOfStripped(strip(s))

\* x[i] for a tuple, a list or a str x (i from 0)
Item(x, i) == IF x.t = "str" THEN PyStr(Ch(x.s, i + 1)) ELSE x.items[i + 1]

\* len(x): TypeError for a value that has no length
len(x) == CASE x.t = "str" -> PyInt(Len(x.s))
            [] x.t \in {"tuple", "list"} -> PyInt(Len(x.items))
            [] OTHER -> Raise("TypeError")

\* type(x) == float or type(x) == int: a bool is neither
IsNumber(x) == x.t \in {"float", "int"}

(***************************************************************************)
(* Defaults and accepted values                                            *)
(***************************************************************************)
d_intmethod == "full"
d_xunit == "2th_deg"
d_rad_points == PyInt(6000)
d_rad_range == PyNone
d_azim_range == PyNone
d_neg_mask == PyFloat(-1, -10)
d_errormodel == "None"
intmethod_accepted == {"no", "full", "pseudo", "bbox"}
xunit_accepted == {"2th_deg", "2th_rad", "q_nm^-1", "q_A^-1", "q_a^-1", "r_mm"}
neg_mask_accepted == {"none"}
errormodel_accepted == {"none", "poisson"}
keyword_all_accepted == {"ALL", "All", "all"}
maskfext_accepted == {".tif", ".edf", ".msk", ".npy"}
oneDdefault == "1D"
sep == "/"

(***************************************************************************)
(* Coercion of one raw text.  Each operator returns [v, warn]: the value   *)
(* the variable holds afterwards (or the exception that leaves the block)  *)
(* and whether a warning was printed.                                      *)
(***************************************************************************)
Res(v, w) == [v |-> v, warn |-> w]

\* guided entry of the pixel splitting method
GuidedIntmethod(raw) ==
    IF raw = "" THEN Res(PyStr(d_intmethod), FALSE)
    ELSE IF raw \notin intmethod_accepted /\ lower(raw) \notin intmethod_accepted
         THEN Res(PyStr(d_intmethod), TRUE)
    ELSE Res(PyStr(lower(raw)), FALSE)

\* the same field when an .int file is loaded
LoadIntmethod(raw) ==
    IF raw \notin intmethod_accepted /\ lower(raw) \notin intmethod_accepted
    THEN Res(PyStr(raw), TRUE)
    ELSE Res(PyStr(raw), FALSE)

GuidedXunit(raw) ==
    IF raw = "" THEN Res(PyStr(d_xunit), FALSE)
    ELSE IF lower(raw) = "tth" THEN Res(PyStr(d_xunit), FALSE)
    ELSE IF lower(raw) = "q" THEN Res(PyStr("q_A^-1"), FALSE)
    ELSE IF raw \notin xunit_accepted /\ lower(raw) \notin xunit_accepted
         THEN Res(PyStr(d_xunit), TRUE)
    ELSE Res(PyStr(lower(raw)), FALSE)

\* the second test chain, on xunit as the 'tth' test leaves it
LoadXunitRest(x1) ==
    IF lower(x1) = "q" THEN Res(PyStr("q_A^-1"), FALSE)
    ELSE IF x1 \notin xunit_accepted /\ lower(x1) \notin xunit_accepted
         THEN Res(PyStr(x1), TRUE)
    ELSE Res(PyStr(lower(x1)), FALSE)

\* a load check of the unit without the 'tth' test
LoadXunitNoTth(raw) == LoadXunitRest(raw)

LoadXunit(raw) == LoadXunitRest(IF lower(raw) = "tth" THEN d_xunit ELSE raw)

GuidedRadPoints(raw) ==
    IF raw = "" THEN Res(d_rad_points, FALSE) ELSE Res(int_of_str(raw), FALSE)

LoadRadPoints(raw) == Res(int_of_str(raw), FALSE)

\* the checks on a literal that has a length: the first two items of two or
\* more must be numbers, a single item is refused, and nothing looks further
RangeOfSized(v) ==
    IF len(v).n > 1
    THEN IF ~IsNumber(Item(v, 0)) THEN Res(d_rad_range, TRUE)
         ELSE IF ~IsNumber(Item(v, 1)) THEN Res(d_rad_range, TRUE)
         ELSE Res(v, FALSE)
    ELSE IF len(v).n = 1 THEN Res(d_rad_range, TRUE)
    ELSE Res(v, FALSE)

\* the checks on what literal_eval gives: only TypeError is caught, and
\* len() of a number is one
RangeOfLiteral(v) ==
    IF IsRaise(v)
    THEN IF v.exc = "TypeError" THEN Res(d_rad_range, TRUE) ELSE Res(v, FALSE)
    ELSE IF v = PyNone THEN Res(v, FALSE)
    ELSE IF IsRaise(len(v)) THEN Res(d_rad_range, TRUE)
    ELSE RangeOfSized(v)

\* rad_range and azim_range, guided and loaded
CoerceRange(raw) ==
    IF raw = "" THEN Res(d_rad_range, FALSE)
    ELSE IF raw = "none" \/ lower(raw) = "none" THEN Res(d_rad_range, FALSE)
    ELSE IF AnyDigit(raw) THEN RangeOfLiteral(literal_eval(raw))
    ELSE Res(d_rad_range, TRUE)

\* the branch of neg_mask for a literal that is a str, after float() of one
\* that holds a digit: .lower() of a float is an AttributeError, and a str
\* is no number
NegMaskIsDigit(f) ==
    IF IsRaise(f) THEN Res(f, FALSE)
    ELSE IF f.t = "str" THEN Res(d_neg_mask, TRUE)
    ELSE Res(Raise("AttributeError"), FALSE)

NegMaskOfStr(v) == NegMaskIsDigit(IF AnyDigit(v.s) THEN float_of_str(v.s) ELSE v)

\* the checks on what literal_eval gives: only TypeError is caught
NegMaskOfLiteral(v) ==
    IF IsRaise(v)
    THEN IF v.exc = "TypeError" THEN Res(d_neg_mask, TRUE) ELSE Res(v, FALSE)
    ELSE IF v = PyNone THEN Res(v, FALSE)
    ELSE IF v.t = "str" THEN NegMaskOfStr(v)
    ELSE IF IsNumber(v) THEN Res(float_of_num(v), FALSE)
    ELSE Res(d_neg_mask, TRUE)

\* neg_mask, guided and loaded
CoerceNegMask(raw) ==
    IF raw = "" THEN Res(d_neg_mask, FALSE)
    ELSE IF raw = "none" \/ lower(raw) = "none" THEN Res(PyNone, FALSE)
    ELSE IF AnyDigit(raw) THEN NegMaskOfLiteral(literal_eval(raw))
    ELSE Res(PyStr(raw), FALSE)

\* an error model check that keeps an accepted text in the case it was typed
CoerceErrormodelAsTyped(raw) ==
    IF raw = "" THEN Res(PyStr(d_errormodel), FALSE)
    ELSE IF raw \in errormodel_accepted \/ lower(raw) \in errormodel_accepted
         THEN Res(PyStr(raw), FALSE)
    ELSE Res(PyStr(d_errormodel), TRUE)

\* errormodel, guided and loaded
CoerceErrormodel(raw) ==
    IF raw = "" THEN Res(PyStr(d_errormodel), FALSE)
    ELSE IF raw \in errormodel_accepted \/ lower(raw) \in errormodel_accepted
         THEN Res(PyStr(lower(raw)), FALSE)
    ELSE Res(PyStr(d_errormodel), TRUE)

(***************************************************************************)
(* The disk and the answers of the user: what the run finds around it.     *)
(***************************************************************************)
MaxImages == 2      \* images listed per source directory
MaxNotes == 2       \* user-note lines below the notes banner of a stored file

TiffRoot == "/d/tiff"
SourceDirs == <<"S1", "S2">>

\* os.listdir: the names in an image directory, in the order the listing gives
ImageNames == <<"t1", "f1", "ab", "cd">>
ListDir(path) ==
    IF \E i \in 1..Len(SourceDirs) :
          path \in {TiffRoot \o sep \o SourceDirs[i] \o sep,
                    TiffRoot \o sep \o SourceDirs[i] \o sep \o "dark_sub" \o sep}
    THEN LET ext == IF endswith(path, "dark_sub" \o sep) THEN ".tiff" ELSE ".tif"
         IN [i \in 1..MaxImages |-> ImageNames[i] \o ext] \o <<"log.txt">>
    ELSE <<>>

\* next(os.walk(tiff_dir))[1]: the immediate sub-directories
WalkDirs(path) == IF path = TiffRoot THEN SourceDirs ELSE <<>>

ExistingFiles == {"/d/g.poni", "/d/g.txt", "/d/m.tif", "/d/m.txt", "C:\\d\\g.poni"}
ExistingDirs == {"/d", TiffRoot, "/d/out", "/d/out/S2", "/d/ro"}
\* directories the user may not write in: os.mkdir there is a PermissionError
ReadOnlyDirs == {"/d/ro"}
\* the files that hold a detector geometry pyFAI can read
PoniFiles == {"/d/g.poni", "C:\\d\\g.poni"}

isfile(path) == path \in ExistingFiles

GuidedUseAnswers == {"1", "2", "3"}
SynsrcAnswers == {"1", "2", ""}
TiffSelectAnswers == {"1", "2", ""}
GuiSelections == {<<>>, <<TiffRoot \o sep \o "S1">>,
                  <<TiffRoot \o sep \o "S1", TiffRoot \o sep \o "S2">>}
TiffDirAnswers == {"", TiffRoot}
KeywordAnswers == {"aLl", "1", "s"}
KeywordCorrectAnswers == {"1", "2", "3", ""}
OneDdirAnswers == {"", "/d/out", "/d/new", "/d/ro"}
PoniAnswers == {"", "/d/g.poni", "/d/g.txt"}
MaskAnswers == {"", "/d/m.tif"}
IntPrmSelectAnswers == {"1", "2", ""}
IntPrmConfirmAnswers == {"1", "2", "3", ""}
StartIntAnswers == {"1", "2", ""}
IntFnameAnswers == {"", "/d/new.int"}

\* the texts typed at the parameter prompts of a whole run
IntmethodTyped == {"BBOX"}
XunitTyped == {"q"}
RadPointsTyped == {"3000"}
RadRangeTyped == {"", "0.0,15.4"}
AzimRangeTyped == {""}
NegMaskTyped == {"None"}
ErrormodelTyped == {"", "Poisson"}

\* datetime.now(), formatted
datestr == "01Jan2024"
timestr == "12-00-00"
datetimestr == datestr \o "_" \o timestr
Version == "0.1"

VARIABLES
    pc,         \* the position of the run in the script
    exc,        \* what ended the run: [type, at], the exception and the step it left
    v,          \* the module's variables: name -> value, Unbound when unassigned
    fs_dirs,    \* the directories on disk
    fs_text,    \* the text files written by the run: path -> lines
    warned,     \* the fields a warning was printed for
    reported,   \* the names listed by an abort message
    calls,      \* the integrate1d calls made, in order
    probe,      \* the raw text under coercion: [field, mode, raw]
    prior       \* the variables as the previous run of the script left them

vars == <<pc, exc, v, fs_dirs, fs_text, warned, reported, calls, probe, prior>>

Names == {"guideduse", "synsrc", "image_extension", "tiff_dir", "main_dir",
          "dirstoint", "GUItiffs", "CLItiffs", "keyword", "oneDdir", "fullponif",
          "fullmaskf", "intmethod", "xunit", "rad_points", "rad_range",
          "azim_range", "neg_mask", "errormodel", "intfname_user", "intlines",
          "keyworddict", "editstartnum", "editendnum", "oneD_folders",
          "missingdirs", "start_int", "intfname", "recfname", "intfdir",
          "static_mask", "totalintcount", "numtiffdirs", "intedimages",
          "numtiffstoint", "int_dir", "ftoint", "oneD_extension",
          "oneD_columns", "oneD_toplace", "oneD_name"}

\* the namespace when the script starts: GUItiffs and CLItiffs are reset up front
V0 == [n \in Names |-> IF n \in {"GUItiffs", "CLItiffs"} THEN PyBool(FALSE) ELSE Unbound]

Bound(n) == v[n] # Unbound

NoProbe == [field |-> "", mode |-> "", raw |-> ""]
NoExc == [type |-> "", at |-> ""]

Init ==
    /\ pc = "guideduse"
    /\ exc = NoExc
    /\ v = V0
    /\ fs_dirs = ExistingDirs
    /\ fs_text = [p \in {} |-> <<>>]
    /\ warned = {}
    /\ reported = {}
    /\ calls = <<>>
    /\ probe = NoProbe
    /\ prior = V0

\* sys.exit()
Abort == pc' = "Abort" /\ exc' = [type |-> "SystemExit", at |-> pc]

\* an exception that nothing catches
Crash(e) == pc' = "Crash" /\ exc' = [type |-> e, at |-> pc]

Goto(l) == pc' = l /\ exc' = exc

\* s.partition(x)[0]
partition0(s, x) == RSplitAt(s, find(s, x))

(***************************************************************************)
(* Guided set-up                                                           *)
(***************************************************************************)
GuidedUse ==
    /\ pc = "guideduse"
    /\ \E a \in GuidedUseAnswers :
         /\ v' = [v EXCEPT !.guideduse = PyStr(a)]
         /\ Goto(IF a = "1" THEN "g_synsrc" ELSE IF a = "2" THEN "l_select" ELSE "confirm")
    /\ UNCHANGED <<fs_dirs, fs_text, warned, reported, calls, probe, prior>>

GuidedSynsrc ==
    /\ pc = "g_synsrc"
    /\ \E a \in SynsrcAnswers :
         IF a = "1"
         THEN v' = [v EXCEPT !.synsrc = PyStr("NSLS-II"), !.image_extension = PyStr(".tiff")]
              /\ Goto("tiffselect")
         ELSE IF a = "2"
         THEN v' = [v EXCEPT !.synsrc = PyStr("APS"), !.image_extension = PyStr(".tif")]
              /\ Goto("tiffselect")
         ELSE v' = v /\ Abort
    /\ UNCHANGED <<fs_dirs, fs_text, warned, reported, calls, probe, prior>>

AfterTiffSelect == IF v.guideduse = PyStr("1") THEN "g_oneDdir" ELSE "mk_root"

RECURSIVE LastPieces(_)
LastPieces(paths) ==
    IF Len(paths) = 0 THEN <<>>
    ELSE <<LastPiece(paths[1], sep)>> \o LastPieces(Tail(paths))

\* the GUI selection of the folders to integrate
TiffSelectGui ==
    /\ pc = "tiffselect"
    /\ \E fulldirstoint \in GuiSelections :
         IF Len(fulldirstoint) = 0 THEN v' = v /\ Abort
         ELSE LET names == LastPieces(fulldirstoint)
                  td == rsplit1_0(partition0(fulldirstoint[1], names[1]), sep)
              IN /\ v' = [v EXCEPT !.dirstoint = PyList(names),
                                   !.GUItiffs = PyBool(TRUE), !.CLItiffs = PyBool(FALSE),
                                   !.tiff_dir = PyStr(td),
                                   !.main_dir = PyStr(rsplit1_0(td, sep))]
                 /\ Goto(AfterTiffSelect)
    /\ UNCHANGED <<fs_dirs, fs_text, warned, reported, calls, probe, prior>>

\* the keyword prompts: a keyword, "is the keyword correct?", and one redo
TiffSelectKeyword ==
    /\ pc = "tiffselect"
    /\ \E td \in TiffDirAnswers, k1 \in KeywordAnswers, c1 \in KeywordCorrectAnswers,
          k2 \in KeywordAnswers, c2 \in KeywordCorrectAnswers :
         IF td = "" THEN v' = v /\ Abort
         ELSE LET kw == IF c1 = "2" THEN k2 ELSE k1
                  last == IF c1 = "2" THEN c2 ELSE c1
                  ok == c1 = "1" \/ (c1 = "2" /\ c2 = "1")
                  quit == (c1 = "2" /\ c2 = "2") \/ last = "3"
              IN /\ (c1 # "2" => (k2 = k1 /\ c2 = c1))
                 /\ v' = [v EXCEPT !.tiff_dir = PyStr(td),
                                   !.main_dir = PyStr(rsplit1_0(td, sep)),
                                   !.keyword = PyStr(kw),
                                   !.CLItiffs = IF ok THEN PyBool(TRUE) ELSE @,
                                   !.GUItiffs = IF ok THEN PyBool(FALSE) ELSE @]
                 /\ IF quit THEN Abort ELSE Goto(AfterTiffSelect)
    /\ UNCHANGED <<fs_dirs, fs_text, warned, reported, calls, probe, prior>>

TiffSelectInvalid ==
    /\ pc = "tiffselect"
    /\ \E a \in TiffSelectAnswers : a \notin {"1", "2"}
    /\ v' = v /\ Abort
    /\ UNCHANGED <<fs_dirs, fs_text, warned, reported, calls, probe, prior>>

GuidedOneDdir ==
    /\ pc = "g_oneDdir"
    /\ \E a \in OneDdirAnswers : v' = [v EXCEPT !.oneDdir = PyStr(a)]
    /\ Goto("g_poni")
    /\ UNCHANGED <<fs_dirs, fs_text, warned, reported, calls, probe, prior>>

GuidedPoni ==
    /\ pc = "g_poni"
    /\ \E a \in PoniAnswers :
         /\ v' = [v EXCEPT !.fullponif = PyStr(a)]
         /\ IF a = "" THEN Abort ELSE Goto("g_mask")
    /\ UNCHANGED <<fs_dirs, fs_text, warned, reported, calls, probe, prior>>

GuidedMask ==
    /\ pc = "g_mask"
    /\ \E a \in MaskAnswers :
         v' = [v EXCEPT !.fullmaskf = IF a = "" THEN PyNone ELSE PyStr(a)]
    /\ Goto("g_intprmselect")
    /\ UNCHANGED <<fs_dirs, fs_text, warned, reported, calls, probe, prior>>

(***************************************************************************)
(* The parameter prompts of the guided set-up.  In a whole run the text    *)
(* typed comes from the field's set of answers; under a probe it is the    *)
(* probe's text.                                                           *)
(***************************************************************************)
TypedFor(field, answers) ==
    IF probe = NoProbe THEN answers
    ELSE IF probe.field = field /\ probe.mode = "guided" THEN {probe.raw}
    ELSE {}

GuidedIntPrmSelect ==
    /\ pc = "g_intprmselect"
    /\ \E a \in IntPrmSelectAnswers :
         IF a = "1"
         THEN /\ v' = [v EXCEPT !.intmethod = PyStr(d_intmethod), !.xunit = PyStr(d_xunit),
                                !.rad_points = d_rad_points, !.rad_range = d_rad_range,
                                !.azim_range = d_azim_range, !.neg_mask = d_neg_mask,
                                !.errormodel = PyStr(d_errormodel)]
              /\ Goto("mk_root")
         ELSE IF a = "2" THEN v' = v /\ Goto("g1_intmethod")
         ELSE v' = v /\ Goto("mk_root")
    /\ UNCHANGED <<fs_dirs, fs_text, warned, reported, calls, probe, prior>>

\* one prompt and its checks: the name holds the coerced value afterwards, or
\* the text as typed when the checks raise
Prompted(label, field, r, raw, next) ==
    /\ pc \in {"g1_" \o label, "g2_" \o label}
    /\ IF IsRaise(r.v)
       THEN v' = [v EXCEPT ![field] = PyStr(raw)] /\ Crash(r.v.exc)
       ELSE v' = [v EXCEPT ![field] = r.v] /\ Goto(SubSeq(pc, 1, 3) \o next)
    /\ warned' = IF r.warn THEN warned \cup {field} ELSE warned
    /\ UNCHANGED <<fs_dirs, fs_text, reported, calls, probe, prior>>

GuidedIntmethodPrompt ==
    \E raw \in TypedFor("intmethod", IntmethodTyped) :
       Prompted("intmethod", "intmethod", GuidedIntmethod(raw), raw, "xunit")

GuidedXunitPrompt ==
    \E raw \in TypedFor("xunit", XunitTyped) :
       Prompted("xunit", "xunit", GuidedXunit(raw), raw, "rad_points")

GuidedRadPointsPrompt ==
    \E raw \in TypedFor("rad_points", RadPointsTyped) :
       Prompted("rad_points", "rad_points", GuidedRadPoints(raw), raw, "rad_range")

GuidedRadRangePrompt ==
    \E raw \in TypedFor("rad_range", RadRangeTyped) :
       Prompted("rad_range", "rad_range", CoerceRange(raw), raw, "azim_range")

GuidedAzimRangePrompt ==
    \E raw \in TypedFor("azim_range", AzimRangeTyped) :
       Prompted("azim_range", "azim_range", CoerceRange(raw), raw, "neg_mask")

GuidedNegMaskPrompt ==
    \E raw \in TypedFor("neg_mask", NegMaskTyped) :
       Prompted("neg_mask", "neg_mask", CoerceNegMask(raw), raw, "errormodel")

GuidedErrormodelPrompt ==
    \E raw \in TypedFor("errormodel", ErrormodelTyped) :
       Prompted("errormodel", "errormodel", CoerceErrormodel(raw), raw, "intprmconfirm")

\* "Are the integration parameters above correct?", first and second time
GuidedIntPrmConfirm ==
    /\ pc \in {"g1_intprmconfirm", "g2_intprmconfirm"}
    /\ probe = NoProbe
    /\ \E a \in IntPrmConfirmAnswers :
         IF pc = "g1_intprmconfirm"
         THEN IF a = "2" THEN Goto("g2_intmethod")
              ELSE IF a = "3" THEN Abort
              ELSE Goto("mk_root")
         ELSE IF a = "2" THEN Abort ELSE Goto("mk_root")
    /\ UNCHANGED <<v, fs_dirs, fs_text, warned, reported, calls, probe, prior>>

(***************************************************************************)
(* The .int file as the script writes it                                   *)
(***************************************************************************)
Hashes == "######################################################################################################################################################"

GI_statement ==
    <<"#Date: " \o datestr,
      "#Time: " \o timestr,
      "#Version: " \o Version,
      "#Github: github.com/adamcorrao/GuidedIntegration",
      "#Citation: Guided Integration Version " \o Version \o " (2024). https://github.com/adamcorrao/GuidedIntegration",
      "#Citation for latest paper on pyFAI: Kieffer, J., Valls, V., Blanc, N. & Hennig, C. (2020). J. Synchrotron Rad. 27, 558-566.">>

desc_statement ==
    <<"",
      "#Description of parameters, options available, acceptable operand / filetypes (Guided Integration formats this correctly):",
      "\t#Data from NSLS-II, APS, or SSRL: where was data collected? Expected image extensions are .tiff for NSLS-II and .tif for APS / SSRL. NSLS-II images expected in sub directory 'dark_sub'",
      "\t#Main integrated pattern directory: directory where sub directories are created in which integrated patterns are saved",
      "\t#Poni file: instrument geometry (e.g., sample-to-detector distance, detector tilts) file - filetype must be .poni",
      "\t#Mask file: static mask (e.g., beamstop, detector edges) - must be one of the following filetypes: *.tif | *.edf | *.npy | *.msk",
      "",
      "#Integration parameters (see pyFAI docs for more details):",
      "\t#Pixel splitting options: no (no splitting), full (full splitting), bbox (bounding box), pseudo (scaled down bbox)",
      "\t#X unit options: 2th_deg, 2th_rad, q_nm^-1, q_A^-1, d*2_A^-2, r_mm",
      "\t#Radial (x-unit) points: the number of bins in the x-axis - must be a number",
      "\t#Radial (x-unit) range: radial range to integrate image over (x-unit specific) - must be a pair of comma separated numbers or None for full range",
      "\t#Azimuthal (deg.) range: azimuthal (deg.) range to integrate image over - must be a pair of comma separated numbers or None for full range",
      "\t#Automask pixel value: pixels with intensity less than this value are automatically masked - must be a number",
      "\t#Intensity error model options: none, poisson for variance = I">>

editstartstr == "Integration parameters and setup."
editendstr == "User notes / metadata allowed below here:"

int_setup_statement(ns) ==
    <<"", Hashes,
      editstartstr,
      "Below here user can edit parameters after the colon. In-line comments are allowed.",
      Hashes,
      "",
      "Data from NSLS-II, APS, or SSRL: " \o str(ns.synsrc),
      "Main integrated pattern directory: " \o str(ns.oneDdir),
      "Poni file: " \o str(ns.fullponif),
      "Mask file: " \o str(ns.fullmaskf)>>

intprm_statement(ns) ==
    <<"",
      "Pixel splitting method: " \o str(ns.intmethod),
      "X unit: " \o str(ns.xunit),
      "Radial (x-unit) points: " \o str(ns.rad_points),
      "Radial (x-unit) range: " \o str(ns.rad_range),
      "Azimuthal (deg.) range: " \o str(ns.azim_range),
      "Automask pixel value: " \o str(ns.neg_mask),
      "Intensity error model: " \o str(ns.errormodel)>>

usernotes_statement == <<"", Hashes, editendstr, Hashes>>

\* the lines a file holds once the pieces are written: each ends with a
\* newline but the last
AsLines(pieces) ==
    [i \in 1..Len(pieces) |-> IF i < Len(pieces) THEN pieces[i] \o "\n" ELSE pieces[i]]

IntFileLines(ns) ==
    AsLines(<<"#Guided Integration .int parameter file">> \o GI_statement \o desc_statement
            \o int_setup_statement(ns) \o intprm_statement(ns) \o usernotes_statement)

(***************************************************************************)
(* The .int files found on disk: one written by an earlier guided run and  *)
(* copies of it edited by hand.                                            *)
(***************************************************************************)
KeyOrder == <<"Data from NSLS-II, APS, or SSRL",
              "Main integrated pattern directory",
              "Poni file",
              "Mask file",
              "Pixel splitting method",
              "X unit",
              "Radial (x-unit) points",
              "Radial (x-unit) range",
              "Azimuthal (deg.) range",
              "Automask pixel value",
              "Intensity error model">>

Keys == {KeyOrder[i] : i \in 1..Len(KeyOrder)}

\* the variable each key's value is read into
VarOfKey == [k \in Keys |->
    CASE k = KeyOrder[1] -> "synsrc" [] k = KeyOrder[2] -> "oneDdir"
      [] k = KeyOrder[3] -> "fullponif" [] k = KeyOrder[4] -> "fullmaskf"
      [] k = KeyOrder[5] -> "intmethod" [] k = KeyOrder[6] -> "xunit"
      [] k = KeyOrder[7] -> "rad_points" [] k = KeyOrder[8] -> "rad_range"
      [] k = KeyOrder[9] -> "azim_range" [] k = KeyOrder[10] -> "neg_mask"
      [] k = KeyOrder[11] -> "errormodel"]

BaseNs == [V0 EXCEPT !.synsrc = PyStr("APS"), !.oneDdir = PyStr("/d/out"),
                     !.fullponif = PyStr("/d/g.poni"), !.fullmaskf = PyStr("/d/m.tif"),
                     !.intmethod = PyStr(d_intmethod), !.xunit = PyStr(d_xunit),
                     !.rad_points = d_rad_points, !.rad_range = d_rad_range,
                     !.azim_range = d_azim_range, !.neg_mask = d_neg_mask,
                     !.errormodel = PyStr(d_errormodel)]

BaseFile == IntFileLines(BaseNs)

IsKeyLine(line, key) == startswith(line, key \o ":")

\* the file with the text after one key's colon replaced
SetValue(lines, key, text) ==
    [i \in 1..Len(lines) |->
        IF IsKeyLine(lines[i], key) THEN key \o ": " \o text \o "\n" ELSE lines[i]]

\* the file without the lines of some keys
DropKeys(lines, keys) ==
    SelectSeq(lines, LAMBDA l : ~\E k \in keys : IsKeyLine(l, k))

DropLine(lines, text) == SelectSeq(lines, LAMBDA l : ~In(text, l))

\* the file from its first line that holds text on
RECURSIVE FromLine(_, _)
FromLine(lines, text) ==
    IF Len(lines) = 0 \/ In(text, lines[1]) THEN lines ELSE FromLine(Tail(lines), text)

NoteLines == <<"sample A, run 7\n", "X unit: checked by hand\n", "calibrated 2024\n">>

\* the file with user notes typed below the notes banner
WithNotes(lines, n) ==
    [i \in 1..Len(lines) |-> IF i = Len(lines) THEN lines[i] \o "\n" ELSE lines[i]]
    \o SubSeq(NoteLines, 1, n)

StoredPaths == {"/d/base.int", "/d/nomask.int", "/d/badmask.int", "/d/noponi.int",
                "/d/badponi.int", "/d/nokey.int", "/d/empty.int", "/d/nostart.int",
                "/d/noend.int", "/d/notes.int", "/d/lower.int", "/d/colon.int",
                "/d/prm.int", "/d/badpts.int", "/d/nocolon.int", "/d/negpts.int",
                "/d/colonval.int", "/d/top.int"}

StoredInt(p) ==
    CASE p = "/d/base.int" -> BaseFile
      [] p = "/d/nomask.int" -> SetValue(BaseFile, "Mask file", "None")
      [] p = "/d/badmask.int" -> SetValue(BaseFile, "Mask file", "/d/m.txt")
      [] p = "/d/noponi.int" -> SetValue(BaseFile, "Poni file", "/d/x.poni")
      [] p = "/d/badponi.int" -> SetValue(BaseFile, "Poni file", "/d/g.txt")
      [] p = "/d/nokey.int" -> DropKeys(BaseFile, {"X unit", "Poni file"})
      [] p = "/d/empty.int" -> <<>>
      [] p = "/d/nostart.int" -> DropLine(BaseFile, editstartstr)
      [] p = "/d/noend.int" -> SubSeq(BaseFile, 1, Len(BaseFile) - 4)
      [] p = "/d/notes.int" -> WithNotes(BaseFile, MaxNotes)
      [] p = "/d/lower.int" ->
           SetValue(SetValue(BaseFile, "Data from NSLS-II, APS, or SSRL", "aps"),
                    "X unit", "  Q   # momentum transfer")
      [] p = "/d/colon.int" -> SetValue(BaseFile, "Poni file", "C:\\d\\g.poni")
      [] p = "/d/prm.int" ->
           SetValue(SetValue(SetValue(SetValue(BaseFile,
               "Data from NSLS-II, APS, or SSRL", "NSLS-II"),
               "Radial (x-unit) range", "(0.0, 15.4)"),
               "Intensity error model", "poisson"),
               "Pixel splitting method", "Full")
      [] p = "/d/badpts.int" -> SetValue(BaseFile, "Radial (x-unit) points", "")
      [] p = "/d/negpts.int" -> SetValue(BaseFile, "Radial (x-unit) points", "-3")
      [] p = "/d/colonval.int" -> SetValue(BaseFile, "Pixel splitting method", "bbox: fast")
      [] p = "/d/top.int" -> FromLine(BaseFile, editstartstr)
      [] p = "/d/nocolon.int" ->
           [i \in 1..Len(BaseFile) |->
              IF IsKeyLine(BaseFile[i], "X unit") THEN "X unit = 2th_deg\n"
              ELSE BaseFile[i]]

\* open(path): the lines of a text file on disk
ReadLines(path) == IF path \in DOMAIN fs_text THEN fs_text[path] ELSE StoredInt(path)

\* the .int files the file browser shows
IntFileChoices == StoredPaths \cup {p \in DOMAIN fs_text : endswith(p, ".int")}

(***************************************************************************)
(* Loading an .int file                                                    *)
(***************************************************************************)
\* the index (from 0) of the first line that contains text, None when absent
RECURSIVE FirstLineWith(_, _, _)
FirstLineWith(lines, text, i) ==
    IF i > Len(lines) THEN PyNone
    ELSE IF In(text, lines[i]) THEN PyInt(i - 1)
    ELSE FirstLineWith(lines, text, i + 1)

\* the file browser, asked a second time when the first answer is empty
LoadSelect ==
    /\ pc = "l_select"
    /\ \E a1 \in IntFileChoices \cup {""}, a2 \in IntFileChoices \cup {""} :
         LET a == IF a1 # "" THEN a1 ELSE a2
         IN /\ (a1 # "" => a2 = a1)
            /\ v' = [v EXCEPT !.intfname_user = PyStr(a)]
            /\ IF a = "" THEN Abort ELSE Goto("l_read")
    /\ UNCHANGED <<fs_dirs, fs_text, warned, reported, calls, probe, prior>>

\* the messages about a section header or footer that was not identified:
\* 'if not editstartnum', 'if not editendnum'
BannerWarnings(startnum, endnum) ==
    (IF ~Truthy(startnum) THEN {"editstartnum"} ELSE {})
    \cup (IF ~Truthy(endnum) THEN {"editendnum"} ELSE {})

\* a read that puts the end of the section at the top of the file when the
\* end banner is not found
LoadReadEndAtTop ==
    /\ pc = "l_read"
    /\ \E lines \in {ReadLines(v.intfname_user.s)} :
       \E endnum \in {FirstLineWith(lines, editendstr, 1)} :
          /\ v' = [v EXCEPT !.intlines = PyList(lines),
                            !.editstartnum = FirstLineWith(lines, editstartstr, 1),
                            !.editendnum = IF ~Truthy(endnum) THEN PyInt(0) ELSE endnum]
          /\ warned' = warned \cup BannerWarnings(FirstLineWith(lines, editstartstr, 1), endnum)
    /\ Goto("l_lookup")
    /\ UNCHANGED <<fs_dirs, fs_text, reported, calls, probe, prior>>

\* the lines are read and the two banners are looked for
LoadRead ==
    /\ pc = "l_read"
    /\ \E lines \in {ReadLines(v.intfname_user.s)} :
       \E endnum \in {FirstLineWith(lines, editendstr, 1)} :
          /\ v' = [v EXCEPT !.intlines = PyList(lines),
                            !.editstartnum = FirstLineWith(lines, editstartstr, 1),
                            !.editendnum = IF ~Truthy(endnum) THEN PyInt(Len(lines)) ELSE endnum]
          /\ warned' = warned \cup BannerWarnings(FirstLineWith(lines, editstartstr, 1), endnum)
    /\ Goto("l_lookup")
    /\ UNCHANGED <<fs_dirs, fs_text, reported, calls, probe, prior>>

\* without the section header: the first line that holds the key and no '#'
\* before it
RECURSIVE FirstUncommented(_, _, _)
FirstUncommented(lines, key, i) ==
    IF i > Len(lines) THEN PyStr("N/A")
    ELSE IF In(key, lines[i])
            /\ (~In("#", lines[i]) \/ find(lines[i], "#") > find(lines[i], key))
         THEN PyInt(i - 1)
    ELSE FirstUncommented(lines, key, i + 1)

\* with the section header: the first line of the section that holds the key
RECURSIVE FirstInSection(_, _, _, _, _)
FirstInSection(lines, key, lo, hi, i) ==
    IF i > Len(lines) THEN PyStr("N/A")
    ELSE IF lo <= i - 1 /\ i - 1 <= hi /\ In(key, lines[i]) THEN PyInt(i - 1)
    ELSE FirstInSection(lines, key, lo, hi, i + 1)

\* a key keeps its initial None when the file has no line to look at
KeyLine(lines, key, startnum, endnum) ==
    IF ~Truthy(startnum)
    THEN IF Len(lines) = 0 THEN PyNone ELSE FirstUncommented(lines, key, 1)
    ELSE FirstInSection(lines, key, startnum.n, endnum.n, 1)

LoadLookup ==
    /\ pc = "l_lookup"
    /\ v' = [v EXCEPT !.keyworddict =
               [k \in Keys |-> KeyLine(v.intlines.items, k, v.editstartnum, v.editendnum)]]
    /\ Goto("l_check")
    /\ UNCHANGED <<fs_dirs, fs_text, warned, reported, calls, probe, prior>>

MissingKeys(kd) == {k \in Keys : kd[k] = PyStr("N/A")}

\* 'N/A' in keyworddict.values(): the keys are listed and the run quits
LoadCheckKeys ==
    /\ pc = "l_check"
    /\ IF MissingKeys(v.keyworddict) # {}
       THEN reported' = MissingKeys(v.keyworddict) /\ Abort
       ELSE reported' = reported /\ Goto("l_extract")
    /\ UNCHANGED <<v, fs_dirs, fs_text, warned, calls, probe, prior>>

\* the text of a located line after mark, cut at '#', stripped; IndexError
\* when the line does not hold mark
ValueAfter(line, mark) ==
    LET pieces == split(stripSet(line, {"\n"}), mark)
        x == pieces[2]
    IN IF Len(pieces) < 2 THEN Raise("IndexError")
       ELSE PyStr(strip(IF In("#", x) THEN split(x, "#")[1] ELSE x))

\* directories and file names are split at 'Key:', every other value at ':'
MarkOfKey(k) == IF VarOfKey[k] \in {"oneDdir", "fullponif", "fullmaskf"} THEN k \o ":" ELSE ":"

\* intlines[None] is a TypeError
Extracted(lines, kd, k) ==
    IF kd[k].t # "int" THEN Raise("TypeError")
    ELSE ValueAfter(lines[kd[k].n + 1], MarkOfKey(k))

\* the keys in file order up to and including the first whose line raises
RECURSIVE ExtractFrom(_, _, _, _)
ExtractFrom(ns, lines, kd, i) ==
    IF i > Len(KeyOrder) THEN [ns |-> ns, exc |-> ""]
    ELSE LET x == Extracted(lines, kd, KeyOrder[i])
         IN IF IsRaise(x) THEN [ns |-> ns, exc |-> x.exc]
            ELSE ExtractFrom([ns EXCEPT ![VarOfKey[KeyOrder[i]]] = x], lines, kd, i + 1)

LoadExtract ==
    /\ pc = "l_extract"
    /\ LET r == ExtractFrom(v, v.intlines.items, v.keyworddict, 1)
       IN v' = r.ns /\ IF r.exc # "" THEN Crash(r.exc) ELSE Goto("l_poni")
    /\ UNCHANGED <<fs_dirs, fs_text, warned, reported, calls, probe, prior>>

\* the poni file must exist and end in .poni
LoadCheckPoni ==
    /\ pc = "l_poni"
    /\ IF ~isfile(v.fullponif.s) \/ ~endswith(v.fullponif.s, ".poni")
       THEN Abort ELSE Goto("l_mask")
    /\ UNCHANGED <<v, fs_dirs, fs_text, warned, reported, calls, probe, prior>>

\* the mask file: None when it does not exist, then the extension test on
\* what fullmaskf now holds
MaskAfterExists(m) == IF ~isfile(m.s) THEN PyNone ELSE m

LoadCheckMask ==
    /\ pc = "l_mask"
    /\ LET m == MaskAfterExists(v.fullmaskf)
       IN IF m = PyNone
          THEN v' = [v EXCEPT !.fullmaskf = PyNone] /\ Crash("AttributeError")
          ELSE IF ~\E ext \in maskfext_accepted : endswith(m.s, ext)
          THEN v' = [v EXCEPT !.fullmaskf = PyNone] /\ Goto("l_synsrc")
          ELSE v' = v /\ Goto("l_synsrc")
    /\ UNCHANGED <<fs_dirs, fs_text, warned, reported, calls, probe, prior>>

LoadCheckSynsrc ==
    /\ pc = "l_synsrc"
    /\ LET x == v.synsrc.s
       IN IF x = "NSLS-II" \/ lower(x) = "nsls-ii"
          THEN v' = [v EXCEPT !.image_extension = PyStr(".tiff")] /\ Goto("l_intmethod")
          ELSE IF x \in {"APS", "SSRL"} \/ lower(x) \in {"aps", "ssrl"}
          THEN v' = [v EXCEPT !.image_extension = PyStr(".tif")] /\ Goto("l_intmethod")
          ELSE v' = v /\ Abort
    /\ UNCHANGED <<fs_dirs, fs_text, warned, reported, calls, probe, prior>>

\* the checks on one extracted text
Checked(label, field, r, next) ==
    /\ pc = "l_" \o label
    /\ probe = NoProbe \/ (probe.field = field /\ probe.mode = "load")
    /\ IF IsRaise(r.v) THEN v' = v /\ Crash(r.v.exc)
       ELSE v' = [v EXCEPT ![field] = r.v] /\ Goto(next)
    /\ warned' = IF r.warn THEN warned \cup {field} ELSE warned
    /\ UNCHANGED <<fs_dirs, fs_text, reported, calls, probe, prior>>

\* the text a load-path check reads
Raw(field) == IF pc = "l_" \o field /\ v[field].t = "str" THEN v[field].s ELSE ""

LoadIntmethodCheck ==
    \E raw \in {Raw("intmethod")} :
       Checked("intmethod", "intmethod", LoadIntmethod(raw), "l_xunit")

LoadXunitCheck ==
    \E raw \in {Raw("xunit")} :
       Checked("xunit", "xunit", LoadXunit(raw), "l_rad_points")

LoadRadPointsCheck ==
    \E raw \in {Raw("rad_points")} :
       Checked("rad_points", "rad_points", LoadRadPoints(raw), "l_rad_range")

LoadRadRangeCheck ==
    \E raw \in {Raw("rad_range")} :
       Checked("rad_range", "rad_range", CoerceRange(raw), "l_azim_range")

LoadAzimRangeCheck ==
    \E raw \in {Raw("azim_range")} :
       Checked("azim_range", "azim_range", CoerceRange(raw), "l_neg_mask")

LoadNegMaskCheck ==
    \E raw \in {Raw("neg_mask")} :
       Checked("neg_mask", "neg_mask", CoerceNegMask(raw), "l_errormodel")

LoadErrormodelCheck ==
    \E raw \in {Raw("errormodel")} :
       Checked("errormodel", "errormodel", CoerceErrormodel(raw), "tiffselect")

(***************************************************************************)
(* Directory creation, guided and loaded                                   *)
(***************************************************************************)
Guided == v.guideduse = PyStr("1")

\* os.makedirs(path, exist_ok=True) and os.mkdir(path) fail where the user
\* may not write
Writable(path) == rsplit1_0(path, sep) \notin ReadOnlyDirs

\* the integrated pattern directory: as given, or main_dir/1D when empty
MakeRoot ==
    /\ pc = "mk_root"
    /\ LET d == IF Truthy(v.oneDdir) THEN v.oneDdir.s
                ELSE v.main_dir.s \o sep \o oneDdefault
       IN /\ v' = [v EXCEPT !.oneDdir = PyStr(d)]
          /\ IF d \in fs_dirs THEN fs_dirs' = fs_dirs /\ Goto("mk_keyword")
             ELSE IF Writable(d) THEN fs_dirs' = fs_dirs \cup {d} /\ Goto("mk_keyword")
             ELSE fs_dirs' = fs_dirs /\ Crash("PermissionError")
    /\ UNCHANGED <<fs_text, warned, reported, calls, probe, prior>>

\* a selection that takes the keyword for 'all' only as the list spells it
KeywordDirsAsListed(dirs, keyword) ==
    IF keyword \in keyword_all_accepted THEN dirs
    ELSE SelectSeq(dirs, LAMBDA d : In(keyword, d))

\* the sub-directories of tiff_dir the keyword selects
KeywordDirs(dirs, keyword) ==
    IF keyword \in keyword_all_accepted \/ lower(keyword) \in keyword_all_accepted
    THEN dirs
    ELSE SelectSeq(dirs, LAMBDA d : In(keyword, d))

\* keyword based dirstoint; the two lists of the creation loop start empty
MakeKeyword ==
    /\ pc = "mk_keyword"
    /\ v' = [v EXCEPT !.dirstoint =
                         IF v.GUItiffs = PyBool(FALSE) /\ v.CLItiffs = PyBool(TRUE)
                         THEN PyList(KeywordDirs(WalkDirs(v.tiff_dir.s), v.keyword.s))
                         ELSE @,
                      !.oneD_folders = PyList(<<>>),
                      !.missingdirs = PyList(<<>>)]
    /\ Goto("mk_sub")
    /\ UNCHANGED <<fs_dirs, fs_text, warned, reported, calls, probe, prior>>

\* a creation loop that keeps the path it made, not the name
MakeSubKeepsPath ==
    /\ pc = "mk_sub"
    /\ IF ~Bound("dirstoint") THEN v' = v /\ fs_dirs' = fs_dirs /\ Crash("NameError")
       ELSE LET done == v.oneD_folders.items
                todo == v.dirstoint.items
                dir == todo[Len(done) + 1]
                path == v.oneDdir.s \o sep \o dir
            IN IF Len(done) = Len(todo)
               THEN v' = v /\ fs_dirs' = fs_dirs /\ Goto("mk_check")
               ELSE IF path \in fs_dirs
               THEN /\ v' = [v EXCEPT !.oneD_folders = PyList(Append(done, dir))]
                    /\ fs_dirs' = fs_dirs /\ Goto("mk_sub")
               ELSE IF Writable(path)
               THEN /\ v' = [v EXCEPT !.oneD_folders = PyList(Append(done, path))]
                    /\ fs_dirs' = fs_dirs \cup {path} /\ Goto("mk_sub")
               ELSE v' = v /\ fs_dirs' = fs_dirs /\ Crash("PermissionError")
    /\ UNCHANGED <<fs_text, warned, reported, calls, probe, prior>>

\* one turn of `for dir in dirstoint`: only FileExistsError is caught
MakeSub ==
    /\ pc = "mk_sub"
    /\ IF ~Bound("dirstoint") THEN v' = v /\ fs_dirs' = fs_dirs /\ Crash("NameError")
       ELSE LET done == v.oneD_folders.items
                todo == v.dirstoint.items
                dir == todo[Len(done) + 1]
                path == v.oneDdir.s \o sep \o dir
            IN IF Len(done) = Len(todo)
               THEN v' = v /\ fs_dirs' = fs_dirs /\ Goto("mk_check")
               ELSE IF path \in fs_dirs
               THEN /\ v' = [v EXCEPT !.oneD_folders = PyList(Append(done, dir))]
                    /\ fs_dirs' = fs_dirs /\ Goto("mk_sub")
               ELSE IF Writable(path)
               THEN /\ v' = [v EXCEPT !.oneD_folders = PyList(Append(done, dir))]
                    /\ fs_dirs' = fs_dirs \cup {path} /\ Goto("mk_sub")
               ELSE v' = v /\ fs_dirs' = fs_dirs /\ Crash("PermissionError")
    /\ UNCHANGED <<fs_text, warned, reported, calls, probe, prior>>

Missing(todo, done) ==
    SelectSeq(todo, LAMBDA d : ~\E i \in 1..Len(done) : done[i] = d)

SetOf(xs) == {xs[i] : i \in 1..Len(xs)}

\* dirstoint != oneD_folders: the missing names are listed and the run quits
MakeCheck ==
    /\ pc = "mk_check"
    /\ IF v.dirstoint # v.oneD_folders
       THEN /\ v' = [v EXCEPT !.missingdirs =
                        PyList(Missing(v.dirstoint.items, v.oneD_folders.items))]
            /\ reported' = SetOf(Missing(v.dirstoint.items, v.oneD_folders.items))
            /\ Abort
       ELSE v' = v /\ reported' = reported
            /\ Goto(IF Guided THEN "g_intfname" ELSE "confirm")
    /\ UNCHANGED <<fs_dirs, fs_text, warned, calls, probe, prior>>

\* the save-as browser for the .int file, which may be cancelled
GuidedIntFname ==
    /\ pc = "g_intfname"
    /\ \E a \in IntFnameAnswers : v' = [v EXCEPT !.intfname_user = PyStr(a)]
    /\ Goto("confirm")
    /\ UNCHANGED <<fs_dirs, fs_text, warned, reported, calls, probe, prior>>

(***************************************************************************)
(* Confirmation, the .int file, integration, the record                    *)
(***************************************************************************)
Summarised == {"synsrc", "oneDdir", "fullponif", "fullmaskf", "intmethod", "xunit",
               "rad_points", "rad_range", "azim_range", "neg_mask", "errormodel",
               "dirstoint"}

\* the summary is printed and the user is asked whether to go on
Confirm ==
    /\ pc = "confirm"
    /\ IF \E n \in Summarised : ~Bound(n) THEN v' = v /\ Crash("NameError")
       ELSE \E a \in StartIntAnswers :
               v' = [v EXCEPT !.start_int = PyStr(a)] /\ Goto("write_int")
    /\ UNCHANGED <<fs_dirs, fs_text, warned, reported, calls, probe, prior>>

\* intfname and intfdir: from the name chosen, or the default name in tiff_dir
IntFname(ns) ==
    IF ~Truthy(ns.intfname_user) THEN "GuidedIntegration_" \o datetimestr \o ".int"
    ELSE LastPiece(ns.intfname_user.s, sep)

IntFdir(ns) ==
    IF ~Truthy(ns.intfname_user) THEN ns.tiff_dir.s
    ELSE rsplit1_0(ns.intfname_user.s, sep)

\* the .int file is emptied and written, before the answer is looked at
WriteInt ==
    /\ pc = "write_int"
    /\ v' = [v EXCEPT !.intfname = PyStr(IntFname(v)),
                      !.recfname = PyStr("GuidedIntegration_" \o datetimestr \o "_record.txt"),
                      !.intfdir = PyStr(IntFdir(v))]
    /\ fs_text' = (IntFdir(v) \o sep \o IntFname(v) :> IntFileLines(v)) @@ fs_text
    /\ Goto("process")
    /\ UNCHANGED <<fs_dirs, warned, reported, calls, probe, prior>>

\* anything but '1' quits
ProcessConfirm ==
    /\ pc = "process"
    /\ IF v.start_int # PyStr("1") THEN Abort ELSE Goto("load_poni")
    /\ UNCHANGED <<v, fs_dirs, fs_text, warned, reported, calls, probe, prior>>

\* pyFAI.load(fullponif), then the mask data when a mask is named
LoadGeometry ==
    /\ pc = "load_poni"
    /\ IF v.fullponif.s \notin PoniFiles THEN v' = v /\ Crash("PoniError")
       ELSE /\ v' = [v EXCEPT !.static_mask =
                        IF v.fullmaskf # PyNone THEN PyStr("data of " \o v.fullmaskf.s) ELSE @]
            /\ Goto("precount")
    /\ UNCHANGED <<fs_dirs, fs_text, warned, reported, calls, probe, prior>>

\* int_dir for one folder; unbound when synsrc is none of the three spellings
IntDir(ns, fold) ==
    IF ns.synsrc = PyStr("NSLS-II")
    THEN PyStr(ns.tiff_dir.s \o sep \o fold \o sep \o "dark_sub" \o sep)
    ELSE IF ns.synsrc = PyStr("APS") \/ ns.synsrc = PyStr("SSRL")
    THEN PyStr(ns.tiff_dir.s \o sep \o fold \o sep)
    ELSE Unbound

\* ftoint: the names in int_dir that end in the image extension
Ftoint(ns, fold) ==
    SelectSeq(ListDir(IntDir(ns, fold).s), LAMBDA f : endswith(f, ns.image_extension.s))

\* the pairs with the folders taken from the last to the first
RECURSIVE WorkBackwards(_, _)
WorkBackwards(ns, folds) ==
    IF Len(folds) = 0 THEN <<>>
    ELSE WorkBackwards(ns, Tail(folds))
         \o [i \in 1..Len(Ftoint(ns, folds[1])) |->
                [fold |-> folds[1], file |-> Ftoint(ns, folds[1])[i]]]

\* every (folder, image) pair in the order the loops visit them
RECURSIVE Work(_, _)
Work(ns, folds) ==
    IF Len(folds) = 0 THEN <<>>
    ELSE [i \in 1..Len(Ftoint(ns, folds[1])) |->
             [fold |-> folds[1], file |-> Ftoint(ns, folds[1])[i]]]
         \o Work(ns, Tail(folds))

\* the images are counted up front
Precount ==
    /\ pc = "precount"
    /\ LET folds == v.dirstoint.items
       IN IF Len(folds) > 0 /\ IntDir(v, folds[1]) = Unbound
          THEN /\ v' = [v EXCEPT !.totalintcount = PyInt(0),
                                 !.numtiffdirs = PyInt(Len(folds)),
                                 !.intedimages = PyList(<<>>),
                                 !.numtiffstoint = PyInt(0)]
               /\ Crash("NameError")
          ELSE /\ v' = [v EXCEPT !.totalintcount = PyInt(0),
                                 !.numtiffdirs = PyInt(Len(folds)),
                                 !.intedimages = PyList(<<>>),
                                 !.numtiffstoint = PyInt(Len(Work(v, folds))),
                                 !.int_dir = IF Len(folds) > 0
                                             THEN IntDir(v, folds[Len(folds)]) ELSE @]
               /\ Goto("extension")
    /\ UNCHANGED <<fs_dirs, fs_text, warned, reported, calls, probe, prior>>

\* the extension and the column names of the output, from the error model
OutputFormat ==
    /\ pc = "extension"
    /\ LET e == v.errormodel
       IN IF e = PyStr("None") \/ e = PyStr("none") \/ e = PyNone
          THEN v' = [v EXCEPT !.oneD_extension = PyStr(".xy"),
                              !.oneD_columns = PyList(<<"#" \o str(v.xunit), "I">>)]
          ELSE IF e = PyStr("poisson")
          THEN v' = [v EXCEPT !.oneD_extension = PyStr(".xye"),
                              !.oneD_columns = PyList(<<"#" \o str(v.xunit), "I", "I_err">>)]
          ELSE v' = v
    /\ Goto(IF Len(Work(v, v.dirstoint.items)) = 0 THEN "record" ELSE "integrate")
    /\ UNCHANGED <<fs_dirs, fs_text, warned, reported, calls, probe, prior>>

\* integrate1d and the rewrite of its output file (read_csv, columns, to_csv)
\* either return or raise; nothing around them catches what they raise
IntegrateOutcomes == {"ok", "raise"}

\* one image: the output name, the integrate1d call, the image is listed
Integrate ==
    /\ pc = "integrate"
    /\ LET work == Work(v, v.dirstoint.items)
           k == Len(v.intedimages.items) + 1
           w == work[k]
           toplace == v.oneDdir.s \o sep \o w.fold \o sep
           name == toplace \o sep \o stripChars(w.file, v.image_extension.s)
                   \o v.oneD_extension.s
       IN IF ~Bound("oneD_extension")
          THEN /\ v' = [v EXCEPT !.totalintcount = PyInt(k)]
               /\ calls' = calls /\ Crash("NameError")
          ELSE IF ~Bound("static_mask")
          THEN /\ v' = [v EXCEPT !.totalintcount = PyInt(k), !.oneD_name = PyStr(name)]
               /\ calls' = calls /\ Crash("NameError")
          ELSE /\ calls' = Append(calls, [data |-> IntDir(v, w.fold).s \o w.file,
                                          mask |-> v.static_mask,
                                          filename |-> name])
               /\ \E outcome \in IntegrateOutcomes :
                     IF outcome = "raise"
                     THEN /\ v' = [v EXCEPT !.totalintcount = PyInt(k),
                                            !.oneD_name = PyStr(name)]
                          /\ Crash("IntegrationError")
                     ELSE /\ v' = [v EXCEPT !.totalintcount = PyInt(k),
                                            !.oneD_name = PyStr(name),
                                            !.intedimages = PyList(Append(@.items, w.file))]
                          /\ Goto(IF k = Len(work) THEN "record" ELSE "integrate")
    /\ UNCHANGED <<fs_dirs, fs_text, warned, reported, probe, prior>>

RecordLines(ns) ==
    AsLines(<<"#Guided Integration record file">> \o GI_statement
            \o int_setup_statement(ns) \o intprm_statement(ns)
            \o <<"", Hashes, "Integration record", Hashes, "",
                 "Directories parsed for files to integrate:">>
            \o <<join("\n", ns.dirstoint.items), "", "Images integrated:">>
            \o <<join("\n", ns.intedimages.items) \o "\n">> \o usernotes_statement)

\* a record file written while images are still to be integrated
WriteRecordEarly ==
    /\ pc \in {"integrate", "record"}
    /\ fs_text' = (v.intfdir.s \o sep \o v.recfname.s :> RecordLines(v)) @@ fs_text
    /\ pc' = "Done" /\ exc' = exc
    /\ UNCHANGED <<v, fs_dirs, warned, reported, calls, probe, prior>>

\* the record file is written after the last image
WriteRecord ==
    /\ pc = "record"
    /\ fs_text' = (v.intfdir.s \o sep \o v.recfname.s :> RecordLines(v)) @@ fs_text
    /\ pc' = "Done" /\ exc' = exc
    /\ UNCHANGED <<v, fs_dirs, warned, reported, calls, probe, prior>>

(***************************************************************************)
(* A whole run of the script                                               *)
(***************************************************************************)
Next ==
    \/ GuidedUse
    \/ GuidedSynsrc
    \/ TiffSelectGui
    \/ TiffSelectKeyword
    \/ TiffSelectInvalid
    \/ GuidedOneDdir
    \/ GuidedPoni
    \/ GuidedMask
    \/ GuidedIntPrmSelect
    \/ GuidedIntmethodPrompt
    \/ GuidedXunitPrompt
    \/ GuidedRadPointsPrompt
    \/ GuidedRadRangePrompt
    \/ GuidedAzimRangePrompt
    \/ GuidedNegMaskPrompt
    \/ GuidedErrormodelPrompt
    \/ GuidedIntPrmConfirm
    \/ LoadSelect
    \/ LoadRead
    \/ LoadLookup
    \/ LoadCheckKeys
    \/ LoadExtract
    \/ LoadCheckPoni
    \/ LoadCheckMask
    \/ LoadCheckSynsrc
    \/ LoadIntmethodCheck
    \/ LoadXunitCheck
    \/ LoadRadPointsCheck
    \/ LoadRadRangeCheck
    \/ LoadAzimRangeCheck
    \/ LoadNegMaskCheck
    \/ LoadErrormodelCheck
    \/ MakeRoot
    \/ MakeKeyword
    \/ MakeSub
    \/ MakeCheck
    \/ GuidedIntFname
    \/ Confirm
    \/ WriteInt
    \/ ProcessConfirm
    \/ LoadGeometry
    \/ Precount
    \/ OutputFormat
    \/ Integrate
    \/ WriteRecord

Spec == Init /\ [][Next]_vars

(***************************************************************************)
(* One field's checks on one raw text, as typed at the guided prompt or as *)
(* extracted from a loaded file.  A text extracted from a file is stripped *)
(* and holds neither '#' nor ':'.                                          *)
(***************************************************************************)
CoerceFields == {"intmethod", "xunit", "rad_points", "rad_range", "azim_range",
                 "neg_mask", "errormodel"}

RawTexts == {"", "none", "None", "NONE", "full", "BBOX", "csr", "tth", "Q", "q_A^-1",
             "2TH_RAD", "degrees", "poisson", "Poisson", "gauss", "6000", "6000.5",
             "5", "-3", "-1e-10", "0.0,15.4", "(1, 2)", "[0, 90]", "1,2,3", "1,",
             "[5]", "1,'a'", "1,a", "1a", "'5'", "'a1'", "abc", "True,1", "tTh", "q", "0"}

\* where the run stands when the field's checks are about to start
ProbeStart(mode, field) == (IF mode = "guided" THEN "g1_" ELSE "l_") \o field

InitCoerce ==
    \E f \in CoerceFields, m \in {"guided", "load"}, raw \in RawTexts :
       /\ probe = [field |-> f, mode |-> m, raw |-> raw]
       /\ pc = ProbeStart(m, f)
       /\ v = IF m = "guided" THEN [V0 EXCEPT !.guideduse = PyStr("1")]
              ELSE [V0 EXCEPT !.guideduse = PyStr("2"), ![f] = PyStr(raw)]
       /\ exc = NoExc
       /\ fs_dirs = ExistingDirs
       /\ fs_text = [p \in {} |-> <<>>]
       /\ warned = {}
       /\ reported = {}
       /\ calls = <<>>
       /\ prior = V0

NextCoerce ==
    \/ GuidedIntmethodPrompt
    \/ GuidedXunitPrompt
    \/ GuidedRadPointsPrompt
    \/ GuidedRadRangePrompt
    \/ GuidedAzimRangePrompt
    \/ GuidedNegMaskPrompt
    \/ GuidedErrormodelPrompt
    \/ LoadIntmethodCheck
    \/ LoadXunitCheck
    \/ LoadRadPointsCheck
    \/ LoadRadRangeCheck
    \/ LoadAzimRangeCheck
    \/ LoadNegMaskCheck
    \/ LoadErrormodelCheck

SpecCoerce == InitCoerce /\ [][NextCoerce]_vars

\* the field's checks have run on the probe's text
Coerced == probe # NoProbe /\ pc # ProbeStart(probe.mode, probe.field)

(***************************************************************************)
(* A guided run that wrote its .int file, and the run that loads it.  The  *)
(* first run stands where the summary was confirmed: one folder selected   *)
(* in the browser, its output directory made, the parameters either the    *)
(* defaults or typed.  Runs of the second start that do not load a file    *)
(* are not followed.                                                       *)
(***************************************************************************)
ConfigFields == {"synsrc", "oneDdir", "fullponif", "fullmaskf", "intmethod", "xunit",
                 "rad_points", "rad_range", "azim_range", "neg_mask", "errormodel"}

\* the variables of a guided run when the .int file is about to be written
GuidedNs(src, mask, typed, rr, em, start) ==
    [V0 EXCEPT !.guideduse = PyStr("1"),
               !.synsrc = PyStr(src),
               !.image_extension = PyStr(IF src = "NSLS-II" THEN ".tiff" ELSE ".tif"),
               !.dirstoint = PyList(<<SourceDirs[1]>>),
               !.GUItiffs = PyBool(TRUE),
               !.tiff_dir = PyStr(TiffRoot),
               !.main_dir = PyStr(rsplit1_0(TiffRoot, sep)),
               !.oneDdir = PyStr("/d/out"),
               !.fullponif = PyStr("/d/g.poni"),
               !.fullmaskf = IF mask = "" THEN PyNone ELSE PyStr(mask),
               !.intmethod = IF typed THEN GuidedIntmethod("BBOX").v ELSE PyStr(d_intmethod),
               !.xunit = IF typed THEN GuidedXunit("q").v ELSE PyStr(d_xunit),
               !.rad_points = IF typed THEN GuidedRadPoints("3000").v ELSE d_rad_points,
               !.rad_range = IF typed THEN CoerceRange(rr).v ELSE d_rad_range,
               !.azim_range = IF typed THEN CoerceRange("").v ELSE d_azim_range,
               !.neg_mask = IF typed THEN CoerceNegMask("None").v ELSE d_neg_mask,
               !.errormodel = IF typed THEN CoerceErrormodel(em).v ELSE PyStr(d_errormodel),
               !.oneD_folders = PyList(<<SourceDirs[1]>>),
               !.missingdirs = PyList(<<>>),
               !.intfname_user = PyStr("/d/new.int"),
               !.start_int = PyStr(start)]

InitRoundTrip ==
    \E src \in {"NSLS-II", "APS"}, mask \in MaskAnswers, typed \in BOOLEAN,
       rr \in RadRangeTyped, em \in ErrormodelTyped, start \in StartIntAnswers \ {"1"} :
       /\ (~typed => (rr = "" /\ em = ""))
       /\ v = GuidedNs(src, mask, typed, rr, em, start)
       /\ pc = "write_int"
       /\ exc = NoExc
       /\ fs_dirs = ExistingDirs \cup {"/d/out" \o sep \o SourceDirs[1]}
       /\ fs_text = [p \in {} |-> <<>>]
       /\ warned = {}
       /\ reported = {}
       /\ calls = <<>>
       /\ probe = NoProbe
       /\ prior = V0

\* the script is started again after a run that ended; the disk stays
Rerun ==
    /\ pc \in {"Abort", "Crash", "Done"}
    /\ prior = V0
    /\ prior' = v
    /\ v' = V0
    /\ pc' = "guideduse"
    /\ exc' = NoExc
    /\ warned' = {}
    /\ reported' = {}
    /\ calls' = <<>>
    /\ UNCHANGED <<fs_dirs, fs_text, probe>>

NextRoundTrip ==
    \/ WriteInt
    \/ ProcessConfirm
    \/ Rerun
    \/ GuidedUse
    \/ LoadSelect
    \/ LoadRead
    \/ LoadLookup
    \/ LoadCheckKeys
    \/ LoadExtract
    \/ LoadCheckPoni
    \/ LoadCheckMask
    \/ LoadCheckSynsrc
    \/ LoadIntmethodCheck
    \/ LoadXunitCheck
    \/ LoadRadPointsCheck
    \/ LoadRadRangeCheck
    \/ LoadAzimRangeCheck
    \/ LoadNegMaskCheck
    \/ LoadErrormodelCheck

SpecRoundTrip == InitRoundTrip /\ [][NextRoundTrip]_vars

(***************************************************************************)
(* Properties                                                              *)
(***************************************************************************)
Ended == pc \in {"Abort", "Crash"}

LoadSteps == {"l_select", "l_read", "l_lookup", "l_check", "l_extract", "l_poni",
              "l_mask", "l_synsrc", "l_intmethod", "l_xunit", "l_rad_points",
              "l_rad_range", "l_azim_range", "l_neg_mask", "l_errormodel"}

EnumFields == {"synsrc", "intmethod", "xunit", "errormodel"}

\* the run is loading the .int file the run before it wrote
Reloading ==
    /\ prior # V0
    /\ v.guideduse = PyStr("2")
    /\ v.intfname_user = PyStr(prior.intfdir.s \o sep \o prior.intfname.s)

\* two values of a field are equal, up to letter case for the enum fields
SameField(f, a, b) ==
    IF f \in EnumFields /\ a.t = "str" /\ b.t = "str" THEN lower(a.s) = lower(b.s)
    ELSE a = b

\* C1: a run that loads the .int file the guided run before it wrote neither
\* aborts nor crashes in the load, and when the load is over every field of
\* the configuration equals the field the writing run held, up to letter
\* case of the enum fields.
C1_RoundTrip ==
    Reloading =>
       /\ ~(Ended /\ exc.at \in LoadSteps)
       /\ (pc = "tiffselect" => \A f \in ConfigFields : SameField(f, v[f], prior[f]))

\* the run stopped at the integrate1d call for want of the mask data
CrashedForMask ==
    /\ pc = "Crash"
    /\ exc.at = "integrate"
    /\ Bound("oneD_extension")
    /\ ~Bound("static_mask")

\* C2: a mask that is absent or unusable never ends the run: the mask check
\* of a load goes on to the next step, a run with no mask does not stop at
\* the integration call for the mask, and a run with no mask that finishes
\* has integrated every planned image without a mask.
C2_MaskNeverFatal ==
    /\ ~(Ended /\ exc.at = "l_mask")
    /\ (v.fullmaskf = PyNone => ~CrashedForMask)
    /\ (v.fullmaskf = PyNone /\ pc = "Done" =>
           /\ Len(calls) = Len(Work(v, v.dirstoint.items))
           /\ \A i \in 1..Len(calls) : calls[i].mask = PyNone)

\* the lines below the notes banner, without their line ends
BelowBanner(lines, k) ==
    IF k = PyNone THEN <<>>
    ELSE [i \in 1..(Len(lines) - k.n - 1) |-> stripSet(lines[i + k.n + 1], {"\n"})]

NotesOf(lines) == BelowBanner(lines, FirstLineWith(lines, editendstr, 1))

\* every item of a is in b, in the order of a
RECURSIVE IsSubseq(_, _)
IsSubseq(a, b) ==
    IF Len(a) = 0 THEN TRUE
    ELSE IF Len(b) = 0 THEN FALSE
    ELSE IF Head(a) = Head(b) THEN IsSubseq(Tail(a), Tail(b))
    ELSE IsSubseq(a, Tail(b))

\* C3: once a loaded .int file is written again, every line that stood
\* below the notes banner of the loaded file stands below the banner of the
\* file on disk, unchanged and in the same order.
C3_NotesPreserved ==
    \A p \in StoredPaths :
       (v.guideduse = PyStr("2") /\ v.intfname_user = PyStr(p) /\ p \in DOMAIN fs_text)
          => IsSubseq(NotesOf(StoredInt(p)), NotesOf(fs_text[p]))

\* the values a field accepts, with the shorthand of the unit
AcceptedOf(f) ==
    CASE f = "intmethod" -> intmethod_accepted
      [] f = "xunit" -> xunit_accepted \cup {"tth", "q"}
      [] f = "errormodel" -> errormodel_accepted

DefaultOf(f) ==
    CASE f = "intmethod" -> d_intmethod
      [] f = "xunit" -> d_xunit
      [] f = "errormodel" -> d_errormodel

Unrecognised(f, raw) == raw # "" /\ lower(raw) \notin {lower(a) : a \in AcceptedOf(f)}

\* C4: in the guided and in the load path, the checks of the splitting
\* method, the unit and the error model on a text that is not an accepted
\* value neither raise nor abort, and leave the field at its default
\* ('full', '2th_deg', 'None' or 'none').
C4_EnumFallback ==
    (Coerced /\ probe.field \in {"intmethod", "xunit", "errormodel"}
       /\ Unrecognised(probe.field, probe.raw))
    => /\ ~(Ended /\ exc.at = ProbeStart(probe.mode, probe.field))
       /\ v[probe.field].t = "str"
       /\ lower(v[probe.field].s) = lower(DefaultOf(probe.field))

\* C5: in the guided and in the load path, the checks of the radial range,
\* the azimuthal range and the automask value never raise, whatever the
\* text: they end with the field bound to a value and the run goes on to
\* the next step.
C5_CoercionNeverRaises ==
    (Coerced /\ probe.field \in {"rad_range", "azim_range", "neg_mask"})
    => /\ ~(Ended /\ exc.at = ProbeStart(probe.mode, probe.field))
       /\ Bound(probe.field)
       /\ v[probe.field].t # "raise"

IsPair(x) ==
    /\ x.t \in {"tuple", "list"}
    /\ Len(x.items) = 2
    /\ \A i \in 1..2 : x.items[i].t \in {"int", "float"}

\* C6: when the checks of a range return, the range is None or a sequence
\* of exactly two numbers, and the text '0.0,15.4' gives the pair
\* (0.0, 15.4).
C6_PairValidation ==
    (Coerced /\ probe.field \in {"rad_range", "azim_range"} /\ ~Ended)
    => /\ (v[probe.field] = PyNone \/ IsPair(v[probe.field]))
       /\ (probe.raw = "0.0,15.4" =>
              v[probe.field] = PyTuple(<<PyFloat(0, 0), PyFloat(154, -1)>>))

\* C7: when the checks of the automask value return, the value is a float
\* or None: the default for an empty text, None for 'none' in any case, and
\* never the text itself.
C7_AutoMaskTyped ==
    (Coerced /\ probe.field = "neg_mask" /\ ~Ended)
    => /\ v.neg_mask.t \in {"float", "NoneType"}
       /\ (probe.raw = "" => v.neg_mask = d_neg_mask)
       /\ (lower(probe.raw) = "none" => v.neg_mask = PyNone)

\* the keys the lookup did not locate
NotLocated == {k \in Keys : v.keyworddict[k].t # "int"}

\* C8: once the keys of a loaded file are looked up and checked, a file
\* with a key that was not located (a file with no line too) has ended the
\* run in Abort, the names reported are the keys not located, no field is
\* extracted, no directory is made and no file is written.
C8_MissingKeyAbort ==
    (v.guideduse = PyStr("2") /\ Bound("keyworddict") /\ NotLocated # {} /\ pc # "l_check")
    => /\ pc = "Abort"
       /\ reported = NotLocated
       /\ \A f \in ConfigFields : ~Bound(f)
       /\ fs_dirs = ExistingDirs
       /\ DOMAIN fs_text = {}

\* the geometry file named does not exist or does not end in .poni
BadPoni ==
    /\ Bound("fullponif")
    /\ (~isfile(v.fullponif.s) \/ ~endswith(v.fullponif.s, ".poni"))

\* C9: in a guided and in a loaded run, with a geometry file that does not
\* exist or does not end in .poni no directory is made and no file is
\* written, and the run ends in no other way than Abort.
C9_FatalGeometry ==
    BadPoni =>
       /\ fs_dirs = ExistingDirs
       /\ DOMAIN fs_text = {}
       /\ pc \notin {"Crash", "Done"}

\* the names of dirstoint that are not recorded in oneD_folders
NotRecorded == SetOf(v.dirstoint.items) \ SetOf(v.oneD_folders.items)

\* C10: once the creation loop is left, every name recorded has its
\* directory, and when a name is not recorded the run has aborted at the
\* list check, reporting the names not recorded, with no image integrated.
C10_ReconciliationGate ==
    (Bound("dirstoint") /\ Bound("oneD_folders") /\ pc # "mk_sub")
    => /\ \A d \in SetOf(v.oneD_folders.items) : (v.oneDdir.s \o sep \o d) \in fs_dirs
       /\ (NotRecorded # {} =>
              /\ pc = "Abort" /\ exc.at = "mk_check"
              /\ reported = NotRecorded
              /\ calls = <<>>)

\* the .int files written so far by this run
IntWritten == {p \in DOMAIN fs_text : endswith(p, ".int")}

\* C11: the .int file is written only after the confirmation prompt was
\* answered '1'; a run whose answer is empty or anything else ends without a
\* written or overwritten .int file; no integration call precedes the write.
C11_PersistAfterConfirm ==
    /\ IntWritten # {} => v.start_int = PyStr("1")
    /\ (pc = "Abort" /\ Bound("start_int") /\ v.start_int # PyStr("1")) => IntWritten = {}
    /\ calls # <<>> => IntWritten # {}

\* the record files written so far by this run
RecordWritten == {p \in DOMAIN fs_text : endswith(p, "_record.txt")}

\* the image names of every planned directory, in the order of the loops
Planned == [i \in 1..Len(Work(v, v.dirstoint.items)) |-> Work(v, v.dirstoint.items)[i].file]

\* a written record closes a run that integrated every planned image once
RecordComplete ==
    RecordWritten # {} =>
       /\ pc = "Done"
       /\ v.intedimages = PyList(Planned)
       /\ Len(calls) = Len(Planned)
       /\ v.totalintcount = PyInt(Len(v.intedimages.items))
       /\ v.totalintcount = v.numtiffstoint
       /\ \A p \in RecordWritten : fs_text[p] = RecordLines(v)

\* the run stopped inside the integration loop
FailedInLoop == Ended /\ exc.at = "integrate"

GuidedOf(f, raw) ==
    CASE f = "intmethod" -> GuidedIntmethod(raw)
      [] f = "xunit" -> GuidedXunit(raw)
      [] f = "rad_points" -> GuidedRadPoints(raw)
      [] f \in {"rad_range", "azim_range"} -> CoerceRange(raw)
      [] f = "neg_mask" -> CoerceNegMask(raw)
      [] f = "errormodel" -> CoerceErrormodel(raw)

\* what the load-path check of a field makes of a text
LoadOf(f, raw) ==
    CASE f = "intmethod" -> LoadIntmethod(raw)
      [] f = "xunit" -> LoadXunit(raw)
      [] f = "rad_points" -> LoadRadPoints(raw)
      [] f \in {"rad_range", "azim_range"} -> CoerceRange(raw)
      [] f = "neg_mask" -> CoerceNegMask(raw)
      [] f = "errormodel" -> CoerceErrormodel(raw)

\* the run stopped in the checks of the probed field
StoppedAtProbe == Ended /\ exc.at = ProbeStart(probe.mode, probe.field)

\* the result of the other path on the probe's text
OtherPath ==
    IF probe.mode = "load" THEN GuidedOf(probe.field, probe.raw)
    ELSE LoadOf(probe.field, probe.raw)

\* C13: for every field and every raw text, the load path and guided entry
\* of the same text give the same typed value and the same outcome (the run
\* stops, or it goes on).
C13_SameCoercion ==
    Coerced =>
       /\ StoppedAtProbe <=> IsRaise(OtherPath.v)
       /\ ~StoppedAtProbe /\ ~IsRaise(OtherPath.v) => v[probe.field] = OtherPath.v

\* the default of each coerced field
EmptyDefault(f) ==
    CASE f = "intmethod" -> PyStr(d_intmethod)
      [] f = "xunit" -> PyStr(d_xunit)
      [] f = "rad_points" -> d_rad_points
      [] f = "rad_range" -> d_rad_range
      [] f = "azim_range" -> d_azim_range
      [] f = "neg_mask" -> d_neg_mask
      [] f = "errormodel" -> PyStr(d_errormodel)

\* C14: an empty text, typed at a guided prompt or read from a loaded file,
\* gives the field its default ('full', '2th_deg', 6000, None, None, -1e-10,
\* 'None'), prints no warning and does not stop the run.
C14_EmptyGivesDefault ==
    (Coerced /\ probe.raw = "") =>
       /\ ~StoppedAtProbe
       /\ v[probe.field] = EmptyDefault(probe.field)
       /\ probe.field \notin warned

\* the run is past the choice of extension and columns
PastFormat ==
    \/ pc \in {"integrate", "record", "Done"}
    \/ Ended /\ exc.at = "integrate"

\* the column labels for the unit the run holds
Columns(labels) == PyList(<<"#" \o str(v.xunit)>> \o labels)

\* C15: whatever error model a run holds when the integration starts, the
\* extension and the column labels are both set: '.xy' with the unit and I
\* for none ('None', 'none'), '.xye' with the unit, I and I_err for poisson;
\* every output file is named with the extension of that pairing.
C15_ExtensionMapping ==
    /\ \A raw \in RawTexts :
          CoerceErrormodel(raw).v \in {PyStr("None"), PyStr("none"), PyStr("poisson")}
    /\ pc = "extension" => v.errormodel \in {PyStr("None"), PyStr("none"), PyStr("poisson")}
    /\ PastFormat =>
          /\ Bound("oneD_extension") /\ Bound("oneD_columns")
          /\ IF v.errormodel = PyStr("poisson")
             THEN v.oneD_extension = PyStr(".xye") /\ v.oneD_columns = Columns(<<"I", "I_err">>)
             ELSE /\ lower(str(v.errormodel)) = "none"
                  /\ v.oneD_extension = PyStr(".xy") /\ v.oneD_columns = Columns(<<"I">>)
          /\ \A i \in 1..Len(calls) : endswith(calls[i].filename, v.oneD_extension.s)

\* an image was integrated with the poisson error model
C15_Witness ==
    /\ pc \in {"integrate", "record"}
    /\ v.errormodel = PyStr("poisson")
    /\ v.oneD_extension = PyStr(".xye")
    /\ Len(calls) > 0

\* the unit a shorthand stands for
ShorthandOf(raw) == IF lower(raw) = "tth" THEN "2th_deg" ELSE "q_A^-1"

\* C16: in the guided and in the load path the unit texts 'tth' and 'q', in
\* any letter case, become '2th_deg' and 'q_A^-1'; neither is in the accepted
\* list, yet neither is warned about: it is replaced before that test.
C16_Shorthand ==
    /\ \A a \in {"tth", "q"} : a \notin xunit_accepted
    /\ (Coerced /\ probe.field = "xunit" /\ lower(probe.raw) \in {"tth", "q"}) =>
          /\ ~StoppedAtProbe
          /\ v.xunit = PyStr(ShorthandOf(probe.raw))
          /\ "xunit" \notin warned

\* a loaded file's unit 'tTh' was checked
C16_Witness ==
    /\ Coerced
    /\ probe = [field |-> "xunit", mode |-> "load", raw |-> "tTh"]
    /\ v.xunit = PyStr("2th_deg")

\* the run selects its directories by keyword and has resolved the list
KeywordResolved ==
    /\ v.GUItiffs = PyBool(FALSE) /\ v.CLItiffs = PyBool(TRUE)
    /\ Bound("dirstoint")

\* the keyword occurs in the name, letter for letter
Contains(name, keyword) ==
    \E i \in 1..Len(name) : \E j \in i..Len(name) : SubSeq(name, i, j) = keyword

\* C17: the keyword 'ALL' in any letter case selects every immediate
\* sub-directory of the source root, in the order of the listing; any other
\* keyword selects exactly the immediate sub-directories whose name contains
\* it, case-sensitively, in that order; nothing of a deeper level is listed.
C17_KeywordSelection ==
    KeywordResolved =>
       /\ v.dirstoint.items =
             IF lower(v.keyword.s) = "all" THEN WalkDirs(v.tiff_dir.s)
             ELSE SelectSeq(WalkDirs(v.tiff_dir.s), LAMBDA d : Contains(d, v.keyword.s))
       /\ \A i \in 1..Len(v.dirstoint.items) :
             /\ v.dirstoint.items[i] \in SetOf(SourceDirs)
             /\ v.dirstoint.items[i] # "dark_sub"

\* the keyword 'aLl' selected both source directories
C17_Witness ==
    /\ KeywordResolved
    /\ v.keyword = PyStr("aLl")
    /\ v.dirstoint = PyList(SourceDirs)
    /\ Len(SourceDirs) > 1

\* the file that was read has the start banner, no end banner, and a line
\* for each of the 11 keys at or after the start banner
StartOnly ==
    /\ Bound("intlines") /\ Bound("keyworddict")
    /\ Truthy(v.editstartnum)
    /\ \A i \in 1..Len(v.intlines.items) : ~In(editendstr, v.intlines.items[i])
    /\ \A k \in Keys : \E i \in (v.editstartnum.n + 1)..Len(v.intlines.items) :
          In(k, v.intlines.items[i])

\* C18: a file with the start banner and the 11 key lines after it but no
\* end banner is parsed: the section is taken to run to the last line, each
\* key is located on its first line at or after the start banner, and the
\* key check does not stop the run.
C18_NoEndBanner ==
    StartOnly =>
       /\ v.editendnum = PyInt(Len(v.intlines.items))
       /\ \A k \in Keys :
             /\ v.keyworddict[k].t = "int"
             /\ v.keyworddict[k].n >= v.editstartnum.n
             /\ v.keyworddict[k].n < Len(v.intlines.items)
             /\ In(k, v.intlines.items[v.keyworddict[k].n + 1])
             /\ \A j \in (v.editstartnum.n + 1)..v.keyworddict[k].n :
                   ~In(k, v.intlines.items[j])
       /\ ~(Ended /\ exc.at \in {"l_lookup", "l_check"})

\* such a file was loaded, its last line is a key line, and the values
\* have been read from the located lines
C18_Witness ==
    /\ StartOnly
    /\ v.keyworddict["Intensity error model"] = PyInt(Len(v.intlines.items) - 1)
    /\ pc = "l_poni"

\* C19: a run that gets as far as integrating holds a point count that is
\* an integer greater than zero: a text that is no integer stopped the run
\* before, and zero or a negative count is never handed to the integration.
C19_PositivePoints ==
    (pc = "integrate" \/ Len(calls) > 0) =>
       /\ v.rad_points.t = "int"
       /\ v.rad_points.n > 0

\* the text of a line that follows the first 'key:'
AfterKeyIn(l, key) == SubSeq(l, find(l, key \o ":") + Len(key) + 2, Len(l))

\* the text up to the first '#'
BeforeComment(x) == IF In("#", x) THEN SubSeq(x, 1, find(x, "#")) ELSE x

\* the value a key line states: what follows 'key:', without the comment
\* and the surrounding whitespace
StatedValue(line, key) == strip(BeforeComment(AfterKeyIn(stripSet(line, {"\n"}), key)))

\* C20: each of the 11 values read from a loaded file is the text after the
\* 'Key:' of its line, cut at the first '#', without leading and trailing
\* whitespace; a ':' inside the value, in a path or in any other field, does
\* not cut it.
C20_ValueExtraction ==
    pc = "l_poni" =>
       \A k \in Keys :
          v[VarOfKey[k]] =
             PyStr(StatedValue(v.intlines.items[v.keyworddict[k].n + 1], k))

\* a file name without its trailing extension
Stem(file, ext) == SubSeq(file, 1, Len(file) - Len(ext))

\* C21: the output file of an image is named by the image name with its
\* trailing image extension removed and '.xy' or '.xye' appended, in the
\* output sub-directory of the image's folder; a '.', 't', 'i' or 'f' at the
\* start or the end of the stem is kept.
C21_OutputName ==
    \A i \in 1..Len(calls) :
       /\ startswith(calls[i].filename,
                     v.oneDdir.s \o sep \o Work(v, v.dirstoint.items)[i].fold \o sep)
       /\ LastPiece(calls[i].filename, sep) =
             Stem(Work(v, v.dirstoint.items)[i].file, v.image_extension.s)
             \o v.oneD_extension.s

\* the image directory of a folder for the data source the run holds
ImageDir(fold) ==
    IF lower(v.synsrc.s) = "nsls-ii"
    THEN v.tiff_dir.s \o sep \o fold \o sep \o "dark_sub" \o sep
    ELSE v.tiff_dir.s \o sep \o fold \o sep

\* C22: for every spelling of the data source that the checks accept, the
\* count of the images and the loop find the image directory of each planned
\* folder: <root>/<dir>/dark_sub for NSLS-II, <root>/<dir> for APS and SSRL;
\* it is never undefined.
C22_SourceResolved ==
    /\ ~(pc = "Crash" /\ exc.at = "precount")
    /\ pc \in {"extension", "integrate", "record", "Done"} =>
          \A i \in 1..Len(v.dirstoint.items) :
             IntDir(v, v.dirstoint.items[i]) = PyStr(ImageDir(v.dirstoint.items[i]))

\* a line that states the key: it holds the key text, and no '#' or its
\* first '#' after the key text
Acceptable(line, key) ==
    In(key, line) /\ (~In("#", line) \/ find(line, "#") > find(line, key))

\* the lines (from 0) of the file that state the key
AcceptableLines(lines, key) == {i - 1 : i \in {j \in 1..Len(lines) : Acceptable(lines[j], key)}}

\* the file that was read holds no start banner, and its keys were looked up
NoStartBanner ==
    /\ Bound("intlines") /\ Bound("keyworddict")
    /\ \A i \in 1..Len(v.intlines.items) : ~In(editstartstr, v.intlines.items[i])

\* C23: without the start banner each key is located on the first line of
\* the whole file that states it; lines whose first '#' precedes the key
\* text are passed over, and a key that no line states is marked and
\* reported as missing.
C23_NoStartFallback ==
    NoStartBanner =>
       /\ \A k \in Keys :
             IF AcceptableLines(v.intlines.items, k) = {}
             THEN v.keyworddict[k] = PyStr("N/A")
             ELSE /\ v.keyworddict[k].t = "int"
                  /\ v.keyworddict[k].n \in AcceptableLines(v.intlines.items, k)
                  /\ \A n \in AcceptableLines(v.intlines.items, k) : v.keyworddict[k].n <= n
       /\ (pc \notin {"l_check"} /\ \E k \in Keys : AcceptableLines(v.intlines.items, k) = {})
             => /\ pc = "Abort" /\ exc.at = "l_check"
                /\ reported = {k \in Keys : AcceptableLines(v.intlines.items, k) = {}}

\* the lines (from 0) of the file read that hold a text
LinesWith(text) ==
    {i - 1 : i \in {j \in 1..Len(v.intlines.items) : In(text, v.intlines.items[j])}}

\* the least number of a non-empty set of numbers
Least(S) == CHOOSE n \in S : \A m \in S : n <= m

\* C24: the section starts at the first line that holds the start banner
\* and ends at the first line that holds the end banner, wherever they are,
\* the first line of the file included; a banner that is in the file is not
\* taken for missing, and a banner text further down does not move the
\* bounds.
C24_BannerLocation ==
    (Bound("intlines") /\ Bound("editstartnum")) =>
       /\ LinesWith(editstartstr) # {} =>
             /\ v.editstartnum = PyInt(Least(LinesWith(editstartstr)))
             /\ "editstartnum" \notin warned
       /\ LinesWith(editendstr) # {} =>
             /\ v.editendnum = PyInt(Least(LinesWith(editendstr)))
             /\ "editendnum" \notin warned

\* the place of a folder in the plan
PlanPos(fold) == Least({i \in 1..Len(v.dirstoint.items) : v.dirstoint.items[i] = fold})

\* the folder and the image of the i-th integration call, from the path of
\* the image it was given
CallFold(i) ==
    CHOOSE f \in SetOf(v.dirstoint.items) :
       startswith(calls[i].data, v.tiff_dir.s \o sep \o f \o sep)

CallFile(i) == LastPiece(calls[i].data, sep)

\* the images listed in a folder's image directory
ImagesOf(fold) ==
    SelectSeq(ListDir(ImageDir(fold)), LAMBDA f : endswith(f, v.image_extension.s))

\* the calls made so far for a folder
CallsFor(fold) == {i \in 1..Len(calls) : CallFold(i) = fold}

\* the block of a written record that follows a heading
RecordBlock(rec, heading) ==
    rec[1 + Least({i \in 1..Len(rec) : rec[i] = heading})]

\* C25: the folders are worked through one at a time in the order of the
\* plan, and every image of a folder is integrated and listed before the
\* first image of the next folder is opened; the record lists the folders in
\* plan order and the images in the order they were integrated.
C25_SequentialOrder ==
    /\ \A i \in 1..Len(calls) : \A j \in i..Len(calls) :
          /\ PlanPos(CallFold(i)) <= PlanPos(CallFold(j))
          /\ CallFold(i) # CallFold(j) =>
                /\ Cardinality(CallsFor(CallFold(i))) = Len(ImagesOf(CallFold(i)))
                /\ i <= Len(v.intedimages.items)
    /\ \A i \in 1..Len(calls) :
          /\ CallFile(i) =
                ImagesOf(CallFold(i))[1 + Cardinality({j \in CallsFor(CallFold(i)) : j < i})]
          /\ i <= Len(v.intedimages.items) => v.intedimages.items[i] = CallFile(i)
    /\ \A p \in RecordWritten :
          /\ RecordBlock(fs_text[p], "Directories parsed for files to integrate:\n")
                = join("\n", v.dirstoint.items) \o "\n"
          /\ startswith(RecordBlock(fs_text[p], "Images integrated:\n"),
                        join("\n", [i \in 1..Len(calls) |-> CallFile(i)]) \o "\n")

\* a finished run over two folders with its record written
C25_Witness ==
    /\ pc = "Done"
    /\ RecordWritten # {}
    /\ Len(v.dirstoint.items) = 2
    /\ Len(calls) >= 4
    /\ CallFold(1) # CallFold(Len(calls))

\* C26: whatever is answered at the directory-selection prompts, a run that
\* does not quit there comes to the creation loop with its list of directory
\* names defined.
C26_PlanResolved ==
    /\ pc = "mk_sub" => Bound("dirstoint")
    /\ ~(pc = "Crash" /\ exc = [type |-> "NameError", at |-> "mk_sub"])

\* C27: a guided run that comes to the final confirmation has all seven
\* integration parameters set, whatever was answered at the 'default or
\* provide' prompt and at the 'are the parameters correct' prompts.
IntegrationParameters == {"intmethod", "xunit", "rad_points", "rad_range",
                          "azim_range", "neg_mask", "errormodel"}

C27_ParametersSet ==
    (pc = "confirm" /\ v.guideduse = PyStr("1")) =>
        \A n \in IntegrationParameters : Bound(n)

\* C28: two different images of one source directory, both ending with the
\* image extension, are never written to the same output file, so no pattern
\* of a run is overwritten by a later image of that run.
C28_OutputNamesInjective ==
    \A i, j \in 1..Len(calls) :
       (/\ i # j
        /\ CallFold(i) = CallFold(j)
        /\ CallFile(i) # CallFile(j)
        /\ endswith(CallFile(i), v.image_extension.s)
        /\ endswith(CallFile(j), v.image_extension.s))
       => calls[i].filename # calls[j].filename

\* C29: when the sub-directory creation loop has run to its end, the list of
\* created names equals the list of resolved names element by element: same
\* length, same name at every position, in guided and load runs alike.
C29_CreatedEqualsResolved ==
    pc = "mk_check" =>
        /\ Len(v.oneD_folders.items) = Len(v.dirstoint.items)
        /\ \A i \in 1..Len(v.dirstoint.items) :
              v.oneD_folders.items[i] = v.dirstoint.items[i]

\* the loop has ended over a plan of two names, one of which it created
C29_Witness ==
    /\ pc = "mk_check"
    /\ Len(v.dirstoint.items) >= 2
    /\ \E i \in 1..Len(v.dirstoint.items) :
          v.oneDdir.s \o sep \o v.dirstoint.items[i] \notin ExistingDirs

\* the fields whose values come from a fixed list of words
LoadEnumFields == {"intmethod", "xunit", "errormodel"}

\* C30: the load-path check of an enum field (splitMethod, unit, errorModel)
\* gives, on the written form of its own result, exactly that result again,
\* letter case included; and the unit shorthand 'q' gives the same string as
\* 'q_A^-1' entered in full.
C30_LoadIdempotent ==
    /\ (Coerced /\ probe.mode = "load" /\ probe.field \in LoadEnumFields
           /\ ~StoppedAtProbe) =>
          LoadOf(probe.field, str(v[probe.field])).v = v[probe.field]
    /\ LoadXunit("q").v = LoadXunit("q_A^-1").v

====
